---------------------------- MODULE Spec2Model ----------------------------
(***************************************************************************)
(* ObfusLite: the encoder plug-ins, the encoder registry and the layered   *)
(* obfuscation pipeline.                                                   *)
(*                                                                         *)
(* A Python str is a sequence of code points, a bytes object a sequence of *)
(* numbers in 0..255, a dict a function whose domain is its key set.  A    *)
(* call that can raise returns [ok |-> FALSE, err |-> <exception name>],   *)
(* one that returns normally [ok |-> TRUE, val |-> <value>].               *)
(***************************************************************************)
EXTENDS Integers, Sequences, FiniteSets, TLC

(***************************************************************************)
(* Bounds of the model.                                                    *)
(***************************************************************************)
MaxLen == 2

MaxLayers == 2

RngMod == 251

None == "None"

Ok(v) == [ok |-> TRUE, val |-> v]

Err(e) == [ok |-> FALSE, err |-> e]

(***************************************************************************)
(* Code points used by the inputs: 'a', e-acute (a non-ASCII letter) and a  *)
(* lone surrogate (a str that has no UTF-8 encoding).                      *)
(***************************************************************************)
Alphabet == {97, 233, 55296}

RECURSIVE SeqsUpTo(_, _)
SeqsUpTo(S, n) ==
    IF n = 0 THEN {<<>>}
    ELSE LET shorter == SeqsUpTo(S, n - 1)
         IN  shorter \cup {Append(s, c) : s \in {t \in shorter : Len(t) = n - 1}, c \in S}

Texts == SeqsUpTo(Alphabet, MaxLen)

(***************************************************************************)
(* Python built-ins and library functions the encoders call.               *)
(***************************************************************************)
RECURSIVE BitXor(_, _)
BitXor(a, b) ==
    IF a = 0 THEN b
    ELSE IF b = 0 THEN a
    ELSE (((a % 2) + (b % 2)) % 2) + 2 * BitXor(a \div 2, b \div 2)

\* The recursive operators below split their range in halves, so that
\* their depth is logarithmic in the length of the string.

\* ''.join(ss[lo..hi])
RECURSIVE FlattenRange(_, _, _)
FlattenRange(ss, lo, hi) ==
    IF lo > hi THEN <<>>
    ELSE IF lo = hi THEN ss[lo]
    ELSE LET mid == (lo + hi) \div 2
         IN  FlattenRange(ss, lo, mid) \o FlattenRange(ss, mid + 1, hi)

\* ''.join(ss)
Flatten(ss) == FlattenRange(ss, 1, Len(ss))

\* sep.join(ss)
Join(sep, ss) ==
    Flatten([k \in 1..(IF Len(ss) = 0 THEN 0 ELSE 2 * Len(ss) - 1) |->
                IF k % 2 = 1 THEN ss[(k + 1) \div 2] ELSE sep])

\* sum(f[lo..hi])
RECURSIVE SumRange(_, _, _)
SumRange(f, lo, hi) ==
    IF lo > hi THEN 0
    ELSE IF lo = hi THEN f[lo]
    ELSE LET mid == (lo + hi) \div 2
         IN  SumRange(f, lo, mid) + SumRange(f, mid + 1, hi)

\* the indices of s whose element is c, ascending
Positions(s, c) == SelectSeq([i \in 1..Len(s) |-> i], LAMBDA i : s[i] = c)

Reverse(s) == [i \in 1..Len(s) |-> s[Len(s) + 1 - i]]

IsSurrogate(cp) == cp >= 55296 /\ cp <= 57343

\* str.encode('utf-8') of one code point
Utf8Char(cp) ==
    IF cp < 128 THEN <<cp>>
    ELSE IF cp < 2048 THEN <<192 + (cp \div 64), 128 + (cp % 64)>>
    ELSE IF cp < 65536
         THEN <<224 + (cp \div 4096), 128 + ((cp \div 64) % 64), 128 + (cp % 64)>>
    ELSE <<240 + (cp \div 262144), 128 + ((cp \div 4096) % 64),
           128 + ((cp \div 64) % 64), 128 + (cp % 64)>>

\* str.encode('utf-8'): UnicodeEncodeError on a lone surrogate
Utf8Encode(s) ==
    IF \E i \in 1..Len(s) : IsSurrogate(s[i])
    THEN Err("UnicodeEncodeError")
    ELSE Ok(Flatten([i \in 1..Len(s) |-> Utf8Char(s[i])]))

IsCont(b, i) == i >= 1 /\ i <= Len(b) /\ b[i] >= 128 /\ b[i] <= 191

\* the length of the UTF-8 sequence a lead byte announces, 0 for a byte
\* that cannot lead
Utf8Width(lead) ==
    IF lead < 128 THEN 1
    ELSE IF lead >= 194 /\ lead <= 223 THEN 2
    ELSE IF lead >= 224 /\ lead <= 239 THEN 3
    ELSE IF lead >= 240 /\ lead <= 244 THEN 4
    ELSE 0

\* the sequence that starts at the lead byte b[i] is well formed
Utf8WellFormed(b, i) ==
    LET w == Utf8Width(b[i])
    IN  /\ w > 0
        /\ i + w - 1 <= Len(b)
        /\ \A k \in (i + 1)..(i + w - 1) : IsCont(b, k)
        /\ ~IsCont(b, i + w)
        /\ (b[i] = 224 => b[i + 1] >= 160)
        /\ (b[i] = 237 => b[i + 1] <= 159)
        /\ (b[i] = 240 => b[i + 1] >= 144)
        /\ (b[i] = 244 => b[i + 1] <= 143)

Utf8Point(b, i) ==
    LET w == Utf8Width(b[i])
    IN  IF w = 1 THEN b[i]
        ELSE IF w = 2 THEN (b[i] - 192) * 64 + (b[i + 1] - 128)
        ELSE IF w = 3
             THEN (b[i] - 224) * 4096 + (b[i + 1] - 128) * 64 + (b[i + 2] - 128)
        ELSE (b[i] - 240) * 262144 + (b[i + 1] - 128) * 4096
             + (b[i + 2] - 128) * 64 + (b[i + 3] - 128)

\* bytes.decode('utf-8') (strict).  The bytes are valid exactly when they
\* do not start with a continuation byte and every other byte leads a
\* well-formed sequence that ends where the next one starts.
Utf8Decode(b) ==
    LET leads == SelectSeq([i \in 1..Len(b) |-> i], LAMBDA i : ~IsCont(b, i))
    IN  IF IsCont(b, 1) \/ \E k \in 1..Len(leads) : ~Utf8WellFormed(b, leads[k])
        THEN Err("UnicodeDecodeError")
        ELSE Ok([k \in 1..Len(leads) |-> Utf8Point(b, leads[k])])

\* str.encode('ascii') / str.encode('latin-1')
AsciiEncode(s) ==
    IF \E i \in 1..Len(s) : s[i] >= 128 THEN Err("UnicodeEncodeError") ELSE Ok(s)

Latin1Encode(s) ==
    IF \E i \in 1..Len(s) : s[i] >= 256 THEN Err("UnicodeEncodeError") ELSE Ok(s)

\* The base64 alphabet: A-Z a-z 0-9 + /
B64Char(v) ==
    IF v < 26 THEN 65 + v
    ELSE IF v < 52 THEN 97 + (v - 26)
    ELSE IF v < 62 THEN 48 + (v - 52)
    ELSE IF v = 62 THEN 43 ELSE 47

B64Value(c) ==
    IF c >= 65 /\ c <= 90 THEN c - 65
    ELSE IF c >= 97 /\ c <= 122 THEN c - 97 + 26
    ELSE IF c >= 48 /\ c <= 57 THEN c - 48 + 52
    ELSE IF c = 43 THEN 62
    ELSE IF c = 47 THEN 63
    ELSE -1

ByteAt(b, i) == IF i <= Len(b) THEN b[i] ELSE 0

Pow64(q) == IF q = 0 THEN 1 ELSE IF q = 1 THEN 64 ELSE IF q = 2 THEN 4096 ELSE 262144

\* base64.b64encode(b).decode('ascii')
B64Encode(b) ==
    [j \in 1..(4 * ((Len(b) + 2) \div 3)) |->
        LET k == (j - 1) \div 4
            q == (j - 1) % 4
            v == ByteAt(b, 3 * k + 1) * 65536 + ByteAt(b, 3 * k + 2) * 256
                 + ByteAt(b, 3 * k + 3)
        IN  IF (q = 2 /\ 3 * k + 2 > Len(b)) \/ (q = 3 /\ 3 * k + 3 > Len(b))
            THEN 61
            ELSE B64Char((v \div Pow64(3 - q)) % 64)]

\* base64.b64decode(s) with validate=False: characters outside the alphabet
\* are discarded, missing padding is binascii.Error
B64Decode(s) ==
    LET d == SelectSeq(s, LAMBDA c : B64Value(c) >= 0)
        pads == Len(SelectSeq(s, LAMBDA c : c = 61))
        m == Len(d)
        Sext(i) == IF i <= m THEN B64Value(d[i]) ELSE 0
    IN  IF ~(m % 4 = 0 \/ (m % 4 = 2 /\ pads >= 2) \/ (m % 4 = 3 /\ pads >= 1))
        THEN Err("binascii.Error")
        ELSE Ok([i \in 1..((m * 6) \div 8) |->
                LET k == (i - 1) \div 3
                    r == (i - 1) % 3
                    v == Sext(4 * k + 1) * 262144 + Sext(4 * k + 2) * 4096
                         + Sext(4 * k + 3) * 64 + Sext(4 * k + 4)
                IN  (v \div (IF r = 0 THEN 65536 ELSE IF r = 1 THEN 256 ELSE 1)) % 256])

\* Adler-32 of a byte string, as the pair <<a, b>>: a is one plus the sum of
\* the bytes, b the sum of the values a takes after each byte
Adler(b) ==
    LET n == Len(b)
    IN  <<(1 + SumRange(b, 1, n)) % 65521,
          (n + SumRange([i \in 1..n |-> (n - i + 1) * b[i]], 1, n)) % 65521>>

AdlerBytes(b) ==
    LET c == Adler(b)
    IN  <<c[2] \div 256, c[2] % 256, c[1] \div 256, c[1] % 256>>

\* zlib.compress(b): the zlib container (two header bytes, the deflate
\* stream, the Adler-32 of the data).  The deflate stream is kept as the
\* data itself: its entropy coding is lossless and plays no part here.
ZlibCompress(b) == <<120, 156>> \o b \o AdlerBytes(b)

\* zlib.decompress(c): zlib.error on a bad header or checksum
ZlibDecompress(c) ==
    IF Len(c) < 6 \/ c[1] # 120 \/ c[2] # 156 THEN Err("zlib.error")
    ELSE LET body == SubSeq(c, 3, Len(c) - 4)
         IN  IF SubSeq(c, Len(c) - 3, Len(c)) # AdlerBytes(body)
             THEN Err("zlib.error") ELSE Ok(body)

HasKey(metadata, key) == key \in DOMAIN metadata

DelKey(metadata, key) == [k \in (DOMAIN metadata) \ {key} |-> metadata[k]]

(***************************************************************************)
(* FastXOREncoder                                                          *)
(***************************************************************************)
\* the loop with key_index left at 0: every byte XORed with the first key
XorBytes_first_key(b, keys) == [i \in 1..Len(b) |-> BitXor(b[i], keys[1])]

XorBytes(b, keys) ==
    [i \in 1..Len(b) |-> BitXor(b[i], keys[((i - 1) % Len(keys)) + 1])]

FastXOREncoder_encode(data, keys) ==
    LET u == Utf8Encode(data)
    IN  IF ~u.ok THEN u
        ELSE Ok([encoded |-> B64Encode(ZlibCompress(XorBytes(u.val, keys))),
                 metadata |-> [keys |-> keys, original_length |-> Len(data)]])

FastXOREncoder_decode(encoded_data, metadata) ==
    IF ~HasKey(metadata, "keys") THEN Err("KeyError")
    ELSE LET a == AsciiEncode(encoded_data)
         IN  IF ~a.ok THEN a
             ELSE LET c == B64Decode(a.val)
                  IN  IF ~c.ok THEN c
                      ELSE LET z == ZlibDecompress(c.val)
                           IN  IF ~z.ok THEN z
                               ELSE IF Len(z.val) > 0 /\ Len(metadata.keys) = 0
                                    THEN Err("ZeroDivisionError")
                               ELSE Utf8Decode(XorBytes(z.val, metadata.keys))

(***************************************************************************)
(* SimpleEncoder                                                           *)
(***************************************************************************)
SimpleEncoder_encode(data, key) ==
    LET u == Utf8Encode(data)
    IN  IF ~u.ok THEN u
        ELSE Ok([encoded |-> B64Encode(XorBytes(u.val, <<key>>)),
                 metadata |-> [key |-> key, original_length |-> Len(data)]])

SimpleEncoder_decode(encoded_data, metadata) ==
    IF ~HasKey(metadata, "key") THEN Err("KeyError")
    ELSE LET a == AsciiEncode(encoded_data)
         IN  IF ~a.ok THEN a
             ELSE LET c == B64Decode(a.val)
                  IN  IF ~c.ok THEN c
                      ELSE Utf8Decode(XorBytes(c.val, <<metadata.key>>))

(***************************************************************************)
(* str.isalpha / str.isupper for the code points below 384 (ASCII, Latin-1 *)
(* and Latin Extended-A); no other letters occur in the model.             *)
(***************************************************************************)
IsAlpha(cp) ==
    \/ (cp >= 65 /\ cp <= 90) \/ (cp >= 97 /\ cp <= 122)
    \/ cp \in {170, 181, 186}
    \/ (cp >= 192 /\ cp <= 255 /\ cp # 215 /\ cp # 247)
    \/ (cp >= 256 /\ cp <= 383)

IsUpper(cp) ==
    \/ (cp >= 65 /\ cp <= 90)
    \/ (cp >= 192 /\ cp <= 222 /\ cp # 215)
    \/ (cp >= 256 /\ cp <= 311 /\ cp % 2 = 0)

(***************************************************************************)
(* FastBase64Encoder                                                       *)
(***************************************************************************)
\* string.ascii_letters + string.digits + '+/='
SubstChars ==
    [i \in 1..65 |->
        IF i <= 26 THEN 96 + i
        ELSE IF i <= 52 THEN 64 + (i - 26)
        ELSE IF i <= 62 THEN 47 + (i - 52)
        ELSE IF i = 63 THEN 43 ELSE IF i = 64 THEN 47 ELSE 61]

\* dict(zip(chars, shuffled_chars)), keys and values one-character strings
ZipCharMap(shuffled_chars) ==
    [k \in {<<SubstChars[i]>> : i \in 1..65} |->
        <<shuffled_chars[CHOOSE i \in 1..65 : SubstChars[i] = k[1]]>>]

\* char_map.get(c, c)
MapGet(map, c) == IF <<c>> \in DOMAIN map THEN map[<<c>>][1] ELSE c

\* {v: k for k, v in map.items()}.get(c, c) on one-character values
ReverseGet(map, c) ==
    IF \E k \in DOMAIN map : map[k] = <<c>>
    THEN (CHOOSE k \in DOMAIN map : map[k] = <<c>>)[1]
    ELSE c

FastBase64Encoder_encode(data, shuffled_chars) ==
    LET u == Utf8Encode(data)
        char_map == ZipCharMap(shuffled_chars)
    IN  IF ~u.ok THEN u
        ELSE LET encoded_str == B64Encode(u.val)
             IN  Ok([encoded |-> [i \in 1..Len(encoded_str) |->
                                     MapGet(char_map, encoded_str[i])],
                     metadata |-> [char_map |-> char_map,
                                   original_length |-> Len(data)]])

FastBase64Encoder_decode(encoded_data, metadata) ==
    IF ~HasKey(metadata, "char_map") THEN Err("KeyError")
    ELSE LET original_b64 == [i \in 1..Len(encoded_data) |->
                                ReverseGet(metadata.char_map, encoded_data[i])]
             a == AsciiEncode(original_b64)
         IN  IF ~a.ok THEN a
             ELSE LET c == B64Decode(a.val)
                  IN  IF ~c.ok THEN c ELSE Utf8Decode(c.val)

(***************************************************************************)
(* FastRotationEncoder                                                     *)
(***************************************************************************)
\* one Caesar round over a string; sign is 1 in encode and -1 in decode
RotateChar(char, rotation, sign) ==
    IF IsAlpha(char)
    THEN LET base == IF IsUpper(char) THEN 65 ELSE 97
         IN  ((char - base + sign * rotation) % 26) + base
    ELSE char

RotateStr(s, rotation, sign) == [i \in 1..Len(s) |-> RotateChar(s[i], rotation, sign)]

RECURSIVE RotateAll(_, _, _)
RotateAll(s, rotations, sign) ==
    IF rotations = <<>> THEN s
    ELSE RotateAll(RotateStr(s, Head(rotations), sign), Tail(rotations), sign)

FastRotationEncoder_encode(data, rotations) ==
    LET u == Utf8Encode(RotateAll(data, rotations, 1))
    IN  IF ~u.ok THEN u
        ELSE Ok([encoded |-> B64Encode(u.val),
                 metadata |-> [rotations |-> rotations,
                               original_length |-> Len(data)]])

FastRotationEncoder_decode(encoded_data, metadata) ==
    IF ~HasKey(metadata, "rotations") THEN Err("KeyError")
    ELSE LET a == AsciiEncode(encoded_data)
         IN  IF ~a.ok THEN a
             ELSE LET c == B64Decode(a.val)
                  IN  IF ~c.ok THEN c
                      ELSE LET t == Utf8Decode(c.val)
                           IN  IF ~t.ok THEN t
                               ELSE Ok(RotateAll(t.val, Reverse(metadata.rotations), -1))

(***************************************************************************)
(* FastHashEncoder                                                         *)
(***************************************************************************)
HexDigit(v) == IF v < 10 THEN 48 + v ELSE 97 + (v - 10)

Pow16(q) == IF q = 0 THEN 1 ELSE 16 * (IF q = 1 THEN 1 ELSE IF q = 2 THEN 16
            ELSE IF q = 3 THEN 256 ELSE IF q = 4 THEN 4096 ELSE IF q = 5 THEN 65536
            ELSE IF q = 6 THEN 1048576 ELSE 16777216)

\* hashlib.md5(b).hexdigest()[:8]: a digest of the bytes in eight lower-case
\* hex digits.  MD5 itself is replaced by a polynomial digest that fits
\* 32-bit integers.
RECURSIVE Digest(_, _)
Digest(b, n) ==
    IF n = 0 THEN 7 ELSE (Digest(b, n - 1) * 251 + b[n] + 1) % 8388608

Md5Hex8(b) ==
    LET h == Digest(b, Len(b))
    IN  [j \in 1..8 |-> HexDigit((h \div Pow16(8 - j)) % 16)]

\* [data[i:i+size] for i in range(0, len(data), size)]
Chunks(data, size) ==
    [k \in 1..((Len(data) + size - 1) \div size) |->
        SubSeq(data, (k - 1) * size + 1,
               IF k * size < Len(data) THEN k * size ELSE Len(data))]

FastHashEncoder_encode(data) ==
    LET chunks == Chunks(data, 8)
        enc == [k \in 1..Len(chunks) |-> Utf8Encode(chunks[k])]
    IN  IF \E k \in 1..Len(chunks) : ~enc[k].ok THEN Err("UnicodeEncodeError")
        ELSE LET encoded_hashes == [k \in 1..Len(chunks) |-> Md5Hex8(enc[k].val)]
                 \* hash_map[chunk_hash] = chunk: a later chunk replaces an
                 \* earlier one with the same hash
                 hash_map == [h \in {encoded_hashes[k] : k \in 1..Len(chunks)} |->
                                chunks[CHOOSE k \in 1..Len(chunks) :
                                    /\ encoded_hashes[k] = h
                                    /\ \A k2 \in 1..Len(chunks) :
                                         encoded_hashes[k2] = h => k2 <= k]]
             IN  Ok([encoded |-> Join(<<124>>, encoded_hashes),
                     metadata |-> [hash_map |-> hash_map,
                                   original_length |-> Len(data)]])

\* s.split(sep) for a one-character separator: the pieces between
\* consecutive separators
Split(s, sep) ==
    LET at == Positions(s, sep)
        From(k) == IF k = 1 THEN 1 ELSE at[k - 1] + 1
        To(k) == IF k = Len(at) + 1 THEN Len(s) ELSE at[k] - 1
    IN  [k \in 1..(Len(at) + 1) |-> SubSeq(s, From(k), To(k))]

FastHashEncoder_decode(encoded_data, metadata) ==
    IF ~HasKey(metadata, "hash_map") THEN Err("KeyError")
    ELSE LET hashes == Split(encoded_data, 124)
             known == SelectSeq(hashes, LAMBDA h : h \in DOMAIN metadata.hash_map)
         IN  Ok(Flatten([k \in 1..Len(known) |-> metadata.hash_map[known[k]]]))

(***************************************************************************)
(* FastBinaryEncoder                                                       *)
(***************************************************************************)
\* format(n, 'b'): the binary digits of n, most significant first
RECURSIVE BinDigits(_)
BinDigits(n) == IF n < 2 THEN <<n>> ELSE Append(BinDigits(n \div 2), n % 2)

\* format(n, '08b'): at least eight digits, more when n > 255
Format08b(n) ==
    LET d == BinDigits(n)
    IN  IF Len(d) >= 8 THEN d ELSE [i \in 1..(8 - Len(d)) |-> 0] \o d

\* int(byte, 2) for eight digits
BitsToInt(byte) ==
    byte[1] * 128 + byte[2] * 64 + byte[3] * 32 + byte[4] * 16
    + byte[5] * 8 + byte[6] * 4 + byte[7] * 2 + byte[8]

\* the complete 8-digit groups of a bit string (an incomplete last group is
\* dropped)
Groups8(binary) ==
    [k \in 1..(Len(binary) \div 8) |-> SubSeq(binary, 8 * k - 7, 8 * k)]

\* byte[shift:] + byte[:shift]
ShiftLeft(byte, shift) == SubSeq(byte, shift + 1, 8) \o SubSeq(byte, 1, shift)

\* byte[-shift:] + byte[:-shift]
ShiftRight(byte, shift) == SubSeq(byte, 9 - shift, 8) \o SubSeq(byte, 1, 8 - shift)

\* the rotated characters returned as they are, without base64.b64encode
FastBinaryEncoder_encode_raw(data, shift) ==
    LET binary == Flatten([i \in 1..Len(data) |-> Format08b(data[i])])
        groups == Groups8(binary)
        encoded_str == [k \in 1..Len(groups) |-> BitsToInt(ShiftLeft(groups[k], shift))]
    IN  Ok([encoded |-> encoded_str,
            metadata |-> [shift |-> shift, original_length |-> Len(data)]])

FastBinaryEncoder_encode(data, shift) ==
    LET binary == Flatten([i \in 1..Len(data) |-> Format08b(data[i])])
        groups == Groups8(binary)
        encoded_str == [k \in 1..Len(groups) |-> BitsToInt(ShiftLeft(groups[k], shift))]
        l == Latin1Encode(encoded_str)
    IN  IF ~l.ok THEN l
        ELSE Ok([encoded |-> B64Encode(l.val),
                 metadata |-> [shift |-> shift, original_length |-> Len(data)]])

FastBinaryEncoder_decode(encoded_data, metadata) ==
    IF ~HasKey(metadata, "shift") THEN Err("KeyError")
    ELSE LET a == AsciiEncode(encoded_data)
         IN  IF ~a.ok THEN a
             ELSE LET c == B64Decode(a.val)
                  IN  IF ~c.ok THEN c
                      ELSE LET binary == Flatten([i \in 1..Len(c.val) |->
                                                    Format08b(c.val[i])])
                               groups == Groups8(binary)
                           IN  Ok([k \in 1..Len(groups) |->
                                     BitsToInt(ShiftRight(groups[k], metadata.shift))])

(***************************************************************************)
(* FastLookupEncoder                                                       *)
(***************************************************************************)
\* str(n)
RECURSIVE DecDigits(_)
DecDigits(n) == IF n < 10 THEN <<48 + n>> ELSE Append(DecDigits(n \div 10), 48 + (n % 10))

\* the token without its closing '#'
Token_unterminated(i) ==
    LET d == DecDigits(i)
    IN  <<35>> \o (IF Len(d) >= 4 THEN d ELSE [j \in 1..(4 - Len(d)) |-> 48] \o d)

\* f"#{i:04d}#"
Token(i) ==
    LET d == DecDigits(i)
    IN  <<35>> \o (IF Len(d) >= 4 THEN d ELSE [j \in 1..(4 - Len(d)) |-> 48] \o d)
        \o <<35>>

\* unique_chars is list(set(data)) after random.shuffle
FastLookupEncoder_encode(data, unique_chars) ==
    LET lookup_table == [k \in {<<unique_chars[i]>> : i \in 1..Len(unique_chars)} |->
                            Token((CHOOSE i \in 1..Len(unique_chars) :
                                      unique_chars[i] = k[1]) - 1)]
    IN  Ok([encoded |-> Flatten([i \in 1..Len(data) |-> lookup_table[<<data[i]>>]]),
            metadata |-> [lookup_table |-> lookup_table,
                          original_length |-> Len(data)]])

\* The while loop of decode.  It skips to the next '#', takes the text up
\* to the '#' after it as a token and goes on behind that one: the tokens
\* are the stretches from the 1st '#' to the 2nd, from the 3rd to the 4th
\* and so on; a last '#' without a partner is skipped.  A token that is
\* not in reverse_table adds nothing.
LookupScan(s, table) ==
    LET at == Positions(s, 35)
        token == [m \in 1..(Len(at) \div 2) |-> SubSeq(s, at[2 * m - 1], at[2 * m])]
    IN  Flatten([m \in 1..Len(token) |->
                    IF \E k \in DOMAIN table : table[k] = token[m]
                    THEN CHOOSE k \in DOMAIN table : table[k] = token[m]
                    ELSE <<>>])

FastLookupEncoder_decode(encoded_data, metadata) ==
    IF ~HasKey(metadata, "lookup_table") THEN Err("KeyError")
    ELSE Ok(LookupScan(encoded_data, metadata.lookup_table))

(***************************************************************************)
(* The module-level generator of Python's random module: one state per     *)
(* process, advanced by every draw of every encoder.  The Mersenne Twister *)
(* is replaced by a linear congruential generator over 0..RngMod-1.        *)
(***************************************************************************)
RandNext(s) == (s * 5 + 3) % RngMod

\* random.seed(seed)
RandSeed(seed) == seed % RngMod

\* random.randint(a, b) in state s: the value drawn and the next state
RandInt(s, a, b) ==
    LET t == RandNext(s)
    IN  [val |-> a + (t % (b - a + 1)), rng |-> t]

\* [random.randint(a, b) for _ in range(n)]
RECURSIVE RandInts(_, _, _, _)
RandInts(s, n, a, b) ==
    IF n = 0 THEN [val |-> <<>>, rng |-> s]
    ELSE LET d == RandInt(s, a, b)
             rest == RandInts(d.rng, n - 1, a, b)
         IN  [val |-> <<d.val>> \o rest.val, rng |-> rest.rng]

Swap(x, i, j) == [x EXCEPT ![i] = x[j], ![j] = x[i]]

\* random.shuffle(x): for i in reversed(range(1, len(x))): j = randbelow(i + 1);
\* x[i], x[j] = x[j], x[i]   (i here is the 1-based index of x[i])
\* one pass of the loop body, for the (1-based) index i
ShuffleStep(st, i) ==
    LET d == RandInt(st.rng, 1, i)
    IN  [val |-> Swap(st.val, i, d.val), rng |-> d.rng]

\* the passes for the indices hi, hi - 1, ..., lo, in that order (the test
\* upper.rng >= 0 always holds: it has the upper half evaluated before the
\* lower half is entered, which keeps the evaluation shallow)
RECURSIVE ShufflePasses(_, _, _)
ShufflePasses(st, hi, lo) ==
    IF hi < lo THEN st
    ELSE IF hi = lo THEN ShuffleStep(st, hi)
    ELSE LET mid == (lo + hi) \div 2
             upper == ShufflePasses(st, hi, mid + 1)
         IN  IF upper.rng >= 0 THEN ShufflePasses(upper, mid, lo) ELSE upper

\* (x \o <<>> is x, held as a tuple)
Shuffle(x, s) == ShufflePasses([val |-> x \o <<>>, rng |-> s], Len(x), 2)

\* list(set(data)): the distinct characters in the iteration order of the
\* set, which depends on the process's string-hash seed and on nothing
\* else; the two orders kept are ascending (0) and descending (1).
RECURSIVE SortedSeq(_)
SortedSeq(S) ==
    IF S = {} THEN <<>>
    ELSE LET m == CHOOSE x \in S : \A y \in S : x <= y
         IN  <<m>> \o SortedSeq(S \ {m})

ListOfSet(data, hash_seed) ==
    LET asc == SortedSeq({data[i] : i \in 1..Len(data)})
    IN  IF hash_seed = 0 THEN asc ELSE Reverse(asc)

(***************************************************************************)
(* The encoder registry                                                    *)
(***************************************************************************)
AdvancedOrder ==
    <<"quantum", "dna", "fractal", "neural", "steganographic", "runtime", "tensor">>

AdvancedNames == {AdvancedOrder[i] : i \in 1..Len(AdvancedOrder)}

\* get_fast_techniques()
get_fast_techniques ==
    <<"fast_xor", "fast_base64", "fast_rotation", "fast_hash", "fast_binary",
      "fast_lookup", "simple">>

\* get_advanced_techniques(): the advanced names whose import succeeded
\* the list with every advanced name appended, whatever the flags
get_advanced_techniques_all(available) == AdvancedOrder

get_advanced_techniques(available) ==
    SelectSeq(AdvancedOrder, LAMBDA n : n \in available)

\* the optional imports, in the order of the try statements
ImportOrder ==
    <<"quantum", "dna", "fractal", "neural", "steganographic", "runtime", "tensor">>

\* try: from .x import X; X_AVAILABLE = True
\* except ImportError: X_AVAILABLE = False
\* (found: the import statement found the module and what it imports)
\* the try statement without its except clause: the ImportError leaves the
\* module
TryImport_uncaught(found) == [raised |-> ~found, flag |-> found]

TryImport(found) == [raised |-> FALSE, flag |-> found]

\* the literal of _ENCODER_REGISTRY: the keys of the fast encoders
RegistryFast ==
    <<"fast_xor", "fast_base64", "fast_rotation", "fast_hash", "fast_binary",
      "fast_lookup", "simple">>

\* the same statements written in alphabetical order
RegistryOrder_sorted ==
    <<"dna", "fractal", "neural", "quantum", "runtime", "steganographic", "tensor">>

\* the statements if X_AVAILABLE: _ENCODER_REGISTRY['x'] = X, in their order
RegistryOrder ==
    <<"quantum", "dna", "fractal", "neural", "steganographic", "runtime", "tensor">>

\* list(_ENCODER_REGISTRY.keys()): the seven fast entries, then one entry
\* per available advanced encoder in the order of the if statements
get_available_techniques(available) ==
    RegistryFast \o SelectSeq(RegistryOrder, LAMBDA n : n \in available)

\* the keys of the dict get_technique_info() returns
InfoFast ==
    <<"fast_xor", "fast_base64", "fast_rotation", "fast_hash", "fast_binary",
      "fast_lookup", "simple">>

InfoAdvanced ==
    <<"quantum", "dna", "fractal", "neural", "steganographic", "runtime", "tensor">>

\* the dict with every advanced entry written out, whatever the flags
get_technique_info_unconditional(available) ==
    [i \in 1..Len(InfoFast) |-> [name |-> InfoFast[i], type |-> "fast"]]
    \o [i \in 1..Len(InfoAdvanced) |->
           [name |-> InfoAdvanced[i], type |-> "advanced"]]

\* get_technique_info(): the entries in order, each with its 'type'
get_technique_info(available) ==
    [i \in 1..Len(InfoFast) |-> [name |-> InfoFast[i], type |-> "fast"]]
    \o LET present == SelectSeq(InfoAdvanced, LAMBDA n : n \in available)
       IN  [i \in 1..Len(present) |->
              [name |-> present[i], type |-> "advanced"]]

\* _ENCODER_REGISTRY.get(technique, FastXOREncoder): a default class stands in
\* for a name the registry does not hold
get_encoder_class_default(available, technique) ==
    IF \E i \in 1..Len(get_available_techniques(available)) :
           get_available_techniques(available)[i] = technique
    THEN technique
    ELSE "fast_xor"

\* _ENCODER_REGISTRY.get(technique): the encoder class, or None
get_encoder_class(available, technique) ==
    IF \E i \in 1..Len(get_available_techniques(available)) :
           get_available_techniques(available)[i] = technique
    THEN technique
    ELSE None

\* create_encoder(technique): an encoder instance, or None
create_encoder(available, technique) ==
    LET encoder_class == get_encoder_class(available, technique)
    IN  IF encoder_class # None THEN encoder_class ELSE None

(***************************************************************************)
(* SteganographicEncoder.  The cover is held by the number of characters   *)
(* of cover_str, the text into whose characters' least significant bits    *)
(* the LSB layer writes the bits of the input (json.dumps of a dict or     *)
(* list cover, the text itself for a str cover); decode reads nothing      *)
(* else of the cover.  The cover functions return that number, the state   *)
(* of the generator after their draws, and whether they return at all.     *)
(***************************************************************************)
\* random.choice(seq)
RandChoice(s, seq) ==
    LET d == RandInt(s, 1, Len(seq))
    IN  [val |-> seq[d.val], rng |-> d.rng]

\* ''.join(format(ord(char), '08b') for char in data)
BinaryData(data) == Flatten([i \in 1..Len(data) |-> Format08b(data[i])])

\* int(bits, 2), 0 for no bits
RECURSIVE BitsValue(_)
BitsValue(bits) ==
    IF bits = <<>> THEN 0
    ELSE 2 * BitsValue(SubSeq(bits, 1, Len(bits) - 1)) + bits[Len(bits)]

\* len(str(n))
StrLen(n) == Len(DecDigits(n))

\* the lengths of self.lorem_words
LoremWords ==
    <<5, 5, 5, 3, 4, 11, 10, 4, 3, 2, 7, 6, 10, 2, 6, 2, 6, 5, 6, 4, 2, 5, 6,
      4, 7, 12, 7, 7, 4, 7, 2, 2, 7, 9, 4, 4, 5, 2, 13, 9, 5, 4, 6, 6, 5, 8, 9,
      4, 8, 9, 3, 8, 4, 5, 3, 7, 8, 6, 4, 2, 3, 7>>

\* [w for w in self.lorem_words if len(w) % 2 == 1] and ... == 0
OddWords == SelectSeq(LoremWords, LAMBDA w : w % 2 = 1)

EvenWords == SelectSeq(LoremWords, LAMBDA w : w % 2 = 0)

\* one pass of the while loop of _lorem_ipsum_cover: a word for the bit
\* and, with random.random() < 0.3, one more word; every word is followed
\* by one character (the blank of join, or the final '.')
LoremStep(st, bit) ==
    LET word == RandChoice(st.rng, IF bit = 1 THEN OddWords ELSE EvenWords)
        r == RandInt(word.rng, 0, 9)
        extra == RandChoice(r.rng, LoremWords)
    IN  IF r.val < 3
        THEN [len |-> st.len + word.val + 1 + extra.val + 1, rng |-> extra.rng]
        ELSE [len |-> st.len + word.val + 1, rng |-> r.rng]

\* the passes for the bits lo..hi (the test lower.rng >= 0 always holds and
\* has the first half evaluated before the second is entered)
RECURSIVE LoremPasses(_, _, _, _)
LoremPasses(st, binary_data, lo, hi) ==
    IF lo > hi THEN st
    ELSE IF lo = hi THEN LoremStep(st, binary_data[lo])
    ELSE LET mid == (lo + hi) \div 2
             lower == LoremPasses(st, binary_data, lo, mid)
         IN  IF lower.rng >= 0
             THEN LoremPasses(lower, binary_data, mid + 1, hi)
             ELSE lower

\* ' '.join(cover_text) + '.'
lorem_ipsum_cover(binary_data, s) ==
    LET st == LoremPasses([len |-> 0, rng |-> s], binary_data, 1,
                          Len(binary_data))
    IN  [len |-> IF st.len > 0 THEN st.len ELSE 1, rng |-> st.rng,
         returns |-> TRUE]

\* the lengths of 'debug', 'enabled', 'auto_update', 'logging', 'compression'
BoolKeys == <<5, 7, 11, 7, 11>>

\* json.dumps(config, sort_keys=True) of _config_file_cover:
\* {"debug": false, "features": [...], "metadata": {...}, "settings": {...},
\*  "version": "a.b.c"}
config_file_cover(binary_data, s) ==
    LET n == Len(binary_data)
        \* version: three bits per part while more than three are left,
        \* a random digit otherwise (one digit 0..7 either way)
        v1 == IF 3 < n THEN 3 ELSE 0
        v2 == IF v1 + 3 < n THEN v1 + 3 ELSE v1
        v3 == IF v2 + 3 < n THEN v2 + 3 ELSE v2
        drawn == RandInts(s, 3 - (v3 \div 3), 0, 7)
        \* settings: one bit per key while bits are left
        c == IF n - v3 < 5 THEN n - v3 ELSE 5
        settings ==
            2 + SumRange([j \in 1..c |->
                            BoolKeys[j] + 4
                            + (IF binary_data[v3 + j] = 1 THEN 4 ELSE 5)], 1, c)
              + (IF c > 0 THEN 2 * (c - 1) ELSE 0)
        \* features: groups of four bits while more than four are left
        bf == v3 + c
        G == IF n - bf > 4 THEN (n - bf - 1) \div 4 ELSE 0
        array_length ==
            [g \in 1..G |->
                BitsValue(SubSeq(binary_data, bf + 4 * g - 3, bf + 4 * g))]
        \* "feature_K", K the length of the list before the group is added
        flen == SumRange([g \in 1..G |->
                    array_length[g]
                    * (10 + StrLen(SumRange(array_length, 1, g - 1)))], 1, G)
        count == SumRange(array_length, 1, G)
        features == 2 + flen + (IF count > 0 THEN 2 * (count - 1) ELSE 0)
        \* metadata: at most four bits are left here, so the loop runs its
        \* last branch once: {"param_0": int(remaining_bits.ljust(8, '0'), 2)}
        bm == bf + 4 * G
        remaining_bits == SubSeq(binary_data, bm + 1, n)
        metadata ==
            IF bm < n
            THEN 2 + 11 + StrLen(BitsValue(remaining_bits
                        \o [i \in 1..(8 - Len(remaining_bits)) |-> 0]))
            ELSE 2
    IN  \* 78: the braces, the five keys with their separators,
        \* 'false' and the quoted version
        [len |-> 78 + features + metadata + settings, rng |-> drawn.rng,
         returns |-> TRUE]

\* the fifteen decimals (f"{value:.15f}") of pi, e, golden_ratio, sqrt_2,
\* sqrt_3
ConstantDigits ==
    << <<1, 4, 1, 5, 9, 2, 6, 5, 3, 5, 8, 9, 7, 9, 3>>,
       <<7, 1, 8, 2, 8, 1, 8, 2, 8, 4, 5, 9, 0, 4, 5>>,
       <<6, 1, 8, 0, 3, 3, 9, 8, 8, 7, 4, 9, 8, 9, 5>>,
       <<4, 1, 4, 2, 1, 3, 5, 6, 2, 3, 7, 3, 0, 9, 5>>,
       <<7, 3, 2, 0, 5, 0, 8, 0, 7, 5, 6, 8, 8, 7, 7>> >>

\* the lengths of the names of the constants
ConstantNames == <<2, 1, 12, 6, 6>>

\* the lengths of repr(value) of the constants as math computes them
ConstantRepr == <<17, 17, 17, 18, 18>>

\* json.dumps(constants, sort_keys=True) of _math_constants_cover: a
\* constant that is reached while bits are left is rewritten with fifteen
\* decimals, a digit being raised by one (mod 10) where its bit is 1;
\* float() and json.dumps drop the trailing zeros but one decimal
math_constants_cover(binary_data, s) ==
    LET n == Len(binary_data)
        digit(j, i) ==
            LET k == 15 * (j - 1) + i
            IN  IF k <= n /\ binary_data[k] = 1
                THEN (ConstantDigits[j][i] + 1) % 10
                ELSE ConstantDigits[j][i]
        decimals(j) ==
            IF \A i \in 1..15 : digit(j, i) = 0 THEN 1
            ELSE CHOOSE m \in 1..15 :
                    /\ digit(j, m) # 0
                    /\ \A i \in (m + 1)..15 : digit(j, i) = 0
        number(j) ==
            IF 15 * (j - 1) < n THEN 2 + decimals(j) ELSE ConstantRepr[j]
    IN  [len |-> 2 + 8 + SumRange([j \in 1..5 |->
                                      ConstantNames[j] + 4 + number(j)], 1, 5),
         rng |-> s, returns |-> TRUE]

\* the lengths of the names and of the cities of _fake_data_cover
NameLengths == <<5, 3, 7, 5, 3, 5, 5, 5>>

CityLengths == <<8, 6, 5, 5, 6, 6, 7>>

\* one pass of the while loop of _fake_data_cover:
\* {"id": n, "name": "...", "city": "...", "active": b, "score": k / 100.0}
FakeRecord(st, binary_data) ==
    LET n == Len(binary_data)
    IN  IF st.bi >= n \/ st.records >= 20 THEN st
        ELSE LET name == RandChoice(st.rng, NameLengths)
                 city == RandChoice(name.rng, CityLengths)
                 active == binary_data[st.bi + 1]
                 scored == st.bi + 1 + 7 < n
                 k == IF scored
                      THEN BitsValue(SubSeq(binary_data, st.bi + 2, st.bi + 8))
                      ELSE 0
                 id == st.records + 1
             IN  [bi |-> IF scored THEN st.bi + 8 ELSE st.bi + 1,
                  records |-> id,
                  len |-> st.len + 1 + 6 + StrLen(id) + 2
                          + 8 + (name.val + 2) + 2
                          + 8 + (city.val + 2) + 2
                          + 10 + (IF active = 1 THEN 4 ELSE 5) + 2
                          + 9 + (IF k % 10 = 0 THEN 3 ELSE 4) + 1,
                  rng |-> city.rng]

RECURSIVE FakePasses(_, _, _, _)
FakePasses(st, binary_data, lo, hi) ==
    IF lo > hi THEN st
    ELSE IF lo = hi THEN FakeRecord(st, binary_data)
    ELSE LET mid == (lo + hi) \div 2
             lower == FakePasses(st, binary_data, lo, mid)
         IN  IF lower.rng >= 0
             THEN FakePasses(lower, binary_data, mid + 1, hi)
             ELSE lower

\* json.dumps(records); the loop ends after twenty records
fake_data_cover(binary_data, s) ==
    LET st == FakePasses([bi |-> 0, records |-> 0, len |-> 0, rng |-> s],
                         binary_data, 1, 20)
    IN  [len |-> 2 + st.len
                 + (IF st.records > 0 THEN 2 * (st.records - 1) ELSE 0),
         rng |-> st.rng, returns |-> TRUE]

\* the lengths of the words of the three pools of _poetry_cover
OneSyllable == <<3, 3, 3, 4, 4, 3, 3, 4>>

TwoSyllable == <<5, 6, 8, 5, 6, 7>>

ThreeSyllable == <<9, 9, 7, 9>>

\* one step of the two loops of _poetry_cover: a line is begun (its
\* target drawn), or two bits are turned into a word, or the line is
\* closed.  With one bit left and the target not reached the inner loop
\* changes nothing and never ends (stuck).
PoetryStep(st, binary_data) ==
    LET n == Len(binary_data)
    IN  IF st.stuck THEN st
        ELSE IF ~st.in_line
        THEN IF st.bi < n /\ st.lines < 10
             THEN LET target == RandInt(st.rng, 8, 12)
                  IN  [st EXCEPT !.in_line = TRUE, !.target = target.val,
                                 !.current = 0, !.words = 0, !.line = 0,
                                 !.rng = target.rng]
             ELSE st
        ELSE IF st.current < st.target /\ st.bi < n
        THEN IF st.bi + 1 < n
             THEN LET b1 == binary_data[st.bi + 1]
                      b2 == binary_data[st.bi + 2]
                      syllables == IF b1 = 0 /\ b2 = 1 THEN 2
                                   ELSE IF b1 = 1 /\ b2 = 0 THEN 3
                                   ELSE 1
                      word == RandChoice(st.rng,
                                  IF syllables = 1 THEN OneSyllable
                                  ELSE IF syllables = 2 THEN TwoSyllable
                                  ELSE ThreeSyllable)
                  IN  IF st.current + syllables <= st.target
                      THEN [st EXCEPT
                              !.bi = st.bi + 2, !.rng = word.rng,
                              !.current = st.current + syllables,
                              !.words = st.words + 1,
                              !.line = st.line + word.val
                                       + (IF st.words > 0 THEN 1 ELSE 0)]
                      ELSE [st EXCEPT !.bi = st.bi + 2, !.rng = word.rng]
             ELSE [st EXCEPT !.stuck = TRUE]
        ELSE [st EXCEPT !.in_line = FALSE, !.lines = st.lines + 1,
                        !.len = st.len + st.line + 2]

RECURSIVE PoetryPasses(_, _, _, _)
PoetryPasses(st, binary_data, lo, hi) ==
    IF lo > hi THEN st
    ELSE IF lo = hi THEN PoetryStep(st, binary_data)
    ELSE LET mid == (lo + hi) \div 2
             lower == PoetryPasses(st, binary_data, lo, mid)
         IN  IF lower.rng >= 0
             THEN PoetryPasses(lower, binary_data, mid + 1, hi)
             ELSE lower

\* json.dumps(poem_lines): at most ten lines, each begun, filled by at most
\* all pairs of bits and closed, which bounds the number of steps
poetry_cover(binary_data, s) ==
    LET st == PoetryPasses([bi |-> 0, lines |-> 0, len |-> 0, rng |-> s,
                            in_line |-> FALSE, target |-> 0, current |-> 0,
                            words |-> 0, line |-> 0, stuck |-> FALSE],
                           binary_data, 1, (Len(binary_data) \div 2) + 20)
    IN  [len |-> 2 + st.len + (IF st.lines > 0 THEN 2 * (st.lines - 1) ELSE 0),
         rng |-> st.rng, returns |-> ~st.stuck]

\* list(self.cover_types.keys())
CoverTypes ==
    <<"lorem_ipsum", "config_file", "math_constants", "fake_data", "poetry">>

\* self.cover_types[cover_type](binary_data)
Cover(cover_type, binary_data, s) ==
    CASE cover_type = "lorem_ipsum" -> lorem_ipsum_cover(binary_data, s)
      [] cover_type = "config_file" -> config_file_cover(binary_data, s)
      [] cover_type = "math_constants" -> math_constants_cover(binary_data, s)
      [] cover_type = "fake_data" -> fake_data_cover(binary_data, s)
      [] cover_type = "poetry" -> poetry_cover(binary_data, s)

\* _apply_steganographic_layers: bit i goes into the LSB of character i of
\* cover_str while both exist; the layered text is held by its length and
\* the LSBs written
ApplyLayers(cover_length, binary_data) ==
    [length |-> cover_length,
     lsb |-> SubSeq(binary_data, 1,
                    IF cover_length < Len(binary_data)
                    THEN cover_length ELSE Len(binary_data))]

\* encode; never_returns when the cover function does not return.  The
\* base64 and JSON wrapping of the layered text is left as the value wrapped.
SteganographicEncoder_encode(data, s) ==
    LET binary_data == BinaryData(data)
        cover_type == RandChoice(s, CoverTypes)
        cover_data == Cover(cover_type.val, binary_data, cover_type.rng)
        checksum == RandInt(cover_data.rng, 1000000, 9999999)
    IN  IF ~cover_data.returns
        THEN [ok |-> FALSE, err |-> "never_returns", rng |-> cover_data.rng]
        ELSE [ok |-> TRUE,
              val |-> [encoded |->
                          [cover_data |-> ApplyLayers(cover_data.len, binary_data),
                           decoy_metadata |-> [format |-> cover_type.val,
                                               checksum |-> checksum.val]],
                       metadata |-> [cover_type |-> cover_type.val,
                                     original_length |-> Len(data),
                                     binary_length |-> Len(binary_data),
                                     steganographic_method |-> "multi_layer"]],
              rng |-> checksum.rng]

\* _binary_to_string: zeros up to a multiple of eight, one character per
\* eight bits, cut to original_length
BinaryToString(binary_data, original_length) ==
    LET padded == binary_data
                  \o [i \in 1..((8 - (Len(binary_data) % 8)) % 8) |-> 0]
        chars == [k \in 1..(Len(padded) \div 8) |->
                    BitsToInt(SubSeq(padded, 8 * k - 7, 8 * k))]
    IN  SubSeq(chars, 1, IF Len(chars) < original_length
                         THEN Len(chars) ELSE original_length)

\* decode: the LSBs of the characters of cover_data, as a string.  The
\* LSBs of the characters of the cover behind the last bit written are
\* not held: they come after original_length characters and are cut off.
SteganographicEncoder_decode(encoded_data, metadata) ==
    IF ~HasKey(metadata, "cover_type") \/ ~HasKey(metadata, "original_length")
    THEN Err("KeyError")
    ELSE Ok(BinaryToString(encoded_data.cover_data.lsb,
                           metadata.original_length))

(***************************************************************************)
(* QuantumEncoder.  An amplitude <<a, b, c, d>> is the complex number      *)
(* a + b w + c w^2 + d w^3 with w = exp(i pi / 4) (so w^2 = i, w^4 = -1    *)
(* and sqrt(2) = w - w^3); a state [x, y, k] is the vector                 *)
(* (x, y) / sqrt(2)^k.  The six gates keep states in this form.  The       *)
(* generator is NumPy's (np.random), which only this encoder draws from.   *)
(***************************************************************************)
\* list(self.gates.keys())
GateNames == <<"H", "X", "Y", "Z", "S", "T">>

AmpZero == <<0, 0, 0, 0>>

AmpOne == <<1, 0, 0, 0>>

AmpAdd(u, v) == [i \in 1..4 |-> u[i] + v[i]]

AmpNeg(u) == [i \in 1..4 |-> 0 - u[i]]

\* w * u and i * u
AmpTimesW(u) == <<0 - u[4], u[1], u[2], u[3]>>

AmpTimesI(u) == AmpTimesW(AmpTimesW(u))

\* gate @ state
ApplyGate(gate_name, state) ==
    CASE gate_name = "H" ->
            [x |-> AmpAdd(state.x, state.y),
             y |-> AmpAdd(state.x, AmpNeg(state.y)), k |-> state.k + 1]
      [] gate_name = "X" -> [x |-> state.y, y |-> state.x, k |-> state.k]
      [] gate_name = "Y" ->
            [x |-> AmpNeg(AmpTimesI(state.y)), y |-> AmpTimesI(state.x),
             k |-> state.k]
      [] gate_name = "Z" -> [x |-> state.x, y |-> AmpNeg(state.y), k |-> state.k]
      [] gate_name = "S" -> [x |-> state.x, y |-> AmpTimesI(state.y), k |-> state.k]
      [] gate_name = "T" -> [x |-> state.x, y |-> AmpTimesW(state.y), k |-> state.k]

\* _create_quantum_circuit: two bits per qubit, the last one filled with '0'
CreateQuantumCircuit(binary_data) ==
    [q \in 1..((Len(binary_data) + 1) \div 2) |->
        LET b1 == binary_data[2 * q - 1]
            b2 == IF 2 * q <= Len(binary_data) THEN binary_data[2 * q] ELSE 0
        IN  IF b1 = 0 /\ b2 = 0 THEN [x |-> AmpOne, y |-> AmpZero, k |-> 0]
            ELSE IF b1 = 0 /\ b2 = 1 THEN [x |-> AmpZero, y |-> AmpOne, k |-> 0]
            ELSE IF b1 = 1 /\ b2 = 0 THEN [x |-> AmpOne, y |-> AmpOne, k |-> 1]
            ELSE [x |-> AmpOne, y |-> AmpNeg(AmpOne), k |-> 1]]

\* [np.random.choice(seq) for _ in range(n)]
RECURSIVE RandChoices(_, _, _)
RandChoices(s, n, seq) ==
    IF n = 0 THEN [val |-> <<>>, rng |-> s]
    ELSE LET d == RandChoice(s, seq)
             rest == RandChoices(d.rng, n - 1, seq)
         IN  [val |-> <<d.val>> \o rest.val, rng |-> rest.rng]

RECURSIVE ApplyGateSeq(_, _)
ApplyGateSeq(state, gate_names) ==
    IF gate_names = <<>> THEN state
    ELSE ApplyGateSeq(ApplyGate(Head(gate_names), state), Tail(gate_names))

\* one pass of the loop of _apply_quantum_gates: np.random.randint(2, 5)
\* gates, each np.random.choice(gate_names), applied to the qubit
QubitStep(st, state) ==
    LET num_gates == RandInt(st.rng, 2, 4)
        gates_applied == RandChoices(num_gates.rng, num_gates.val, GateNames)
    IN  [states |-> Append(st.states, ApplyGateSeq(state, gates_applied.val)),
         gates |-> Append(st.gates, gates_applied.val),
         rng |-> gates_applied.rng]

RECURSIVE QubitPasses(_, _, _, _)
QubitPasses(st, circuit, lo, hi) ==
    IF lo > hi THEN st
    ELSE IF lo = hi THEN QubitStep(st, circuit[lo])
    ELSE LET mid == (lo + hi) \div 2
             lower == QubitPasses(st, circuit, lo, mid)
         IN  IF lower.rng >= 0
             THEN QubitPasses(lower, circuit, mid + 1, hi)
             ELSE lower

\* _apply_quantum_gates: the states after the gates, and gates_applied of
\* every qubit (written to the local circuit only)
ApplyQuantumGates(circuit, s) ==
    QubitPasses([states |-> <<>>, gates |-> <<>>, rng |-> s], circuit, 1,
                Len(circuit))

\* _generate_entanglement_map: pairs of the shuffled range(length // 2)
GenerateEntanglementMap(length, s) ==
    LET indices == Shuffle([i \in 1..(length \div 2) |-> i - 1], s)
    IN  [val |-> [m \in 1..(Len(indices.val) \div 2) |->
                     <<indices.val[2 * m - 1], indices.val[2 * m]>>],
         rng |-> indices.rng]

\* ['computational', 'hadamard', 'circular']
Bases == <<"computational", "hadamard", "circular">>

\* encode.  The base64 and JSON text of the real and imaginary parts of
\* the amplitudes is left as the amplitudes (json.loads reads back the
\* floats json.dumps wrote).
QuantumEncoder_encode(data, s) ==
    LET binary_data == BinaryData(data)
        circuit == CreateQuantumCircuit(binary_data)
        quantum_states == ApplyQuantumGates(circuit, s)
        entanglement_map ==
            GenerateEntanglementMap(Len(binary_data), quantum_states.rng)
        measurement_basis ==
            RandChoices(entanglement_map.rng, Len(quantum_states.states), Bases)
    IN  [ok |-> TRUE,
         val |-> [encoded |-> quantum_states.states,
                  metadata |-> [circuit_length |-> Len(circuit),
                                entanglement_map |-> entanglement_map.val,
                                measurement_basis |-> measurement_basis.val,
                                original_length |-> Len(data)]],
         rng |-> measurement_basis.rng]

\* abs(z)**2 * 2^k of an amplitude, as p + q sqrt(2)
AmpNorm(u) ==
    [p |-> u[1] * u[1] + u[2] * u[2] + u[3] * u[3] + u[4] * u[4],
     q |-> u[1] * u[2] + u[2] * u[3] + u[3] * u[4] - u[1] * u[4]]

\* the sign of p + q sqrt(2)
SignRoot2(p, q) ==
    IF p = 0 /\ q = 0 THEN 0
    ELSE IF p >= 0 /\ q >= 0 THEN 1
    ELSE IF p <= 0 /\ q <= 0 THEN -1
    ELSE IF p > 0 THEN (IF p * p > 2 * q * q THEN 1 ELSE -1)
    ELSE (IF 2 * q * q > p * p THEN 1 ELSE -1)

\* the sign of prob_0 - prob_1
ProbOrder(state) ==
    SignRoot2(AmpNorm(state.x).p - AmpNorm(state.y).p,
              AmpNorm(state.x).q - AmpNorm(state.y).q)

\* the qubits whose two probabilities are equal as real numbers: which of
\* the two floats is the greater is decided by rounding
Tied(quantum_states) ==
    {q \in 1..Len(quantum_states) : ProbOrder(quantum_states[q]) = 0}

\* decode: _apply_inverse_gates reads no metadata; it gives [1, 0] when
\* prob_0 > prob_1 and [0, 1] otherwise, which _circuit_to_binary writes as
\* "00" and "01".  rounded_up: the tied qubits for which prob_0 > prob_1
\* holds in floating point.  _binary_to_string is BinaryToString.
QuantumEncoder_decode(encoded_data, metadata, rounded_up) ==
    IF ~HasKey(metadata, "original_length") THEN Err("KeyError")
    ELSE LET binary_data ==
                 Flatten([q \in 1..Len(encoded_data) |->
                            IF ProbOrder(encoded_data[q]) = 1
                               \/ (ProbOrder(encoded_data[q]) = 0
                                   /\ q \in rounded_up)
                            THEN <<0, 0>> ELSE <<0, 1>>])
         IN  Ok(BinaryToString(binary_data, metadata.original_length))

(***************************************************************************)
(* DnaEncoder.  A base is its character ('A' 65, 'T' 84, 'G' 71, 'C' 67),  *)
(* a sequence of bases a str.  The base64 and JSON wrapping of the three   *)
(* sequences of the payload is left as the value wrapped.                  *)
(***************************************************************************)
\* ['A', 'T', 'G', 'C'], in the order of base_to_binary: 00, 01, 10, 11
DnaBases == <<65, 84, 71, 67>>

\* _binary_to_dna, after the padding of encode to an even number of bits
binary_to_dna(binary_data) ==
    LET padded == binary_data \o [i \in 1..(Len(binary_data) % 2) |-> 0]
    IN  [k \in 1..(Len(padded) \div 2) |->
            DnaBases[2 * padded[2 * k - 1] + padded[2 * k] + 1]]

\* _dna_to_binary
dna_to_binary(dna_sequence) ==
    Flatten([k \in 1..Len(dna_sequence) |->
                LET v == CHOOSE j \in 1..4 : DnaBases[j] = dna_sequence[k]
                IN  <<(v - 1) \div 2, (v - 1) % 2>>])

\* random.sample(range(n), k) for n <= 21, by the pool of the population:
\* j = randbelow(n - i); result[i] = pool[j]; pool[j] = pool[n - i - 1]
RECURSIVE SamplePool(_, _, _)
SamplePool(pool, k, s) ==
    IF k = 0 THEN [val |-> <<>>, rng |-> s]
    ELSE LET d == RandInt(s, 1, Len(pool))
             rest == SamplePool(SubSeq([pool EXCEPT ![d.val] = pool[Len(pool)]],
                                       1, Len(pool) - 1), k - 1, d.rng)
         IN  [val |-> <<pool[d.val]>> \o rest.val, rng |-> rest.rng]

\* the body of the loop of _apply_mutations for the positions left
RECURSIVE MutateAt(_, _, _, _)
MutateAt(mutated, mutation_map, positions, s) ==
    IF positions = <<>>
    THEN [val |-> [sequence |-> mutated, mutation_map |-> mutation_map],
          rng |-> s]
    ELSE LET pos == Head(positions)
             original_base == mutated[pos + 1]
             bases == SelectSeq(DnaBases, LAMBDA b : b # original_base)
             new_base == RandChoice(s, bases)
         IN  MutateAt([mutated EXCEPT ![pos + 1] = new_base.val],
                      Append(mutation_map,
                             [position |-> pos, original |-> original_base,
                              mutated |-> new_base.val,
                              type |-> "substitution"]),
                      Tail(positions), new_base.rng)

\* _apply_mutations; random.sample raises ValueError when the sequence is
\* shorter than the sample
apply_mutations(dna_sequence, s) ==
    LET num_mutations == IF Len(dna_sequence) \div 20 > 1
                         THEN Len(dna_sequence) \div 20 ELSE 1
        mutation_positions ==
            SamplePool([i \in 1..Len(dna_sequence) |-> i - 1], num_mutations, s)
    IN  IF num_mutations > Len(dna_sequence)
        THEN [ok |-> FALSE, err |-> "ValueError", rng |-> s]
        ELSE [ok |-> TRUE] @@ MutateAt(dna_sequence, <<>>,
                                       mutation_positions.val,
                                       mutation_positions.rng)

\* _reverse_mutations
RECURSIVE reverse_mutations(_, _)
reverse_mutations(mutated_sequence, mutation_map) ==
    IF mutation_map = <<>> THEN Ok(mutated_sequence)
    ELSE LET mutation == Head(mutation_map)
         IN  IF mutation.type # "substitution"
             THEN reverse_mutations(mutated_sequence, Tail(mutation_map))
             ELSE IF mutation.position >= Len(mutated_sequence)
             THEN Err("IndexError")
             ELSE reverse_mutations(
                      [mutated_sequence EXCEPT
                          ![mutation.position + 1] = mutation.original],
                      Tail(mutation_map))

\* _create_complement: A <-> T, G <-> C
create_complement(dna_sequence) ==
    [k \in 1..Len(dna_sequence) |->
        CASE dna_sequence[k] = 65 -> 84
          [] dna_sequence[k] = 84 -> 65
          [] dna_sequence[k] = 71 -> 67
          [] dna_sequence[k] = 67 -> 71]

\* introns.sort(key=lambda x: x['position']): one intron put behind the
\* introns of the sorted list whose position is not greater (the sort is
\* stable)
RECURSIVE InsertIntron(_, _)
InsertIntron(sorted, intron) ==
    IF sorted = <<>> THEN <<intron>>
    ELSE IF sorted[Len(sorted)].position <= intron.position
    THEN Append(sorted, intron)
    ELSE Append(InsertIntron(SubSeq(sorted, 1, Len(sorted) - 1), intron),
                sorted[Len(sorted)])

\* the loop of _generate_introns for the introns left, then the sort
RECURSIVE GenerateIntron(_, _, _, _)
GenerateIntron(introns, left, sequence_length, s) ==
    IF left = 0 THEN [val |-> introns, rng |-> s]
    ELSE LET intron_length == RandInt(s, 10, 30)
             intron_sequence == RandChoices(intron_length.rng,
                                            intron_length.val, DnaBases)
             position == RandInt(intron_sequence.rng, 0, sequence_length)
         IN  GenerateIntron(InsertIntron(introns,
                                         [position |-> position.val,
                                          sequence |-> intron_sequence.val,
                                          length |-> intron_length.val]),
                            left - 1, sequence_length, position.rng)

\* _generate_introns
generate_introns(sequence_length, s) ==
    LET num_introns == RandInt(s, 2, 5)
    IN  GenerateIntron(<<>>, num_introns.val, sequence_length, num_introns.rng)

\* the index a slice bound i stands for in a sequence of n items
SliceIndex(i, n) ==
    IF i < 0 THEN (IF n + i < 0 THEN 0 ELSE n + i)
    ELSE IF i > n THEN n ELSE i

\* sequence[:stop] + middle + sequence[start:]
Resliced(sequence, stop, middle, start) ==
    SubSeq(sequence, 1, SliceIndex(stop, Len(sequence))) \o middle
    \o SubSeq(sequence, SliceIndex(start, Len(sequence)) + 1, Len(sequence))

\* _splice_introns: the loop from intron number i on
RECURSIVE SpliceFrom(_, _, _, _)
SpliceFrom(spliced, introns, i, offset) ==
    IF i > Len(introns) THEN spliced
    ELSE LET pos == introns[i].position + offset
         IN  SpliceFrom(Resliced(spliced, pos, introns[i].sequence, pos),
                        introns, i + 1, offset + introns[i].length)

splice_introns(sequence, introns) == SpliceFrom(sequence, introns, 1, 0)

\* the sum of the lengths of the introns whose position is less than the
\* position of intron number i
RECURSIVE LengthsBefore(_, _, _)
LengthsBefore(introns, i, j) ==
    IF j > Len(introns) THEN 0
    ELSE (IF introns[j].position < introns[i].position
          THEN introns[j].length ELSE 0) + LengthsBefore(introns, i, j + 1)

\* _remove_introns: the loop over reversed(introns) from intron number i
\* down; the list of introns is read, never written
RECURSIVE RemoveFrom(_, _, _)
RemoveFrom(sequence, introns, i) ==
    IF i < 1 THEN sequence
    ELSE LET start_pos == introns[i].position - LengthsBefore(introns, i, 1)
             end_pos == start_pos + introns[i].length
         IN  RemoveFrom(Resliced(sequence, start_pos, <<>>, end_pos),
                        introns, i - 1)

remove_introns(spliced_sequence, introns) ==
    RemoveFrom(spliced_sequence, introns, Len(introns))

\* codon_table, a codon of the bases T, C, A, G numbered 0..3 at index
\* 16 b1 + 4 b2 + b3 + 1
CodonTable ==
    <<70, 70, 76, 76, 83, 83, 83, 83, 89, 89, 42, 42, 67, 67, 42, 87,
      76, 76, 76, 76, 80, 80, 80, 80, 72, 72, 81, 81, 82, 82, 82, 82,
      73, 73, 73, 77, 84, 84, 84, 84, 78, 78, 75, 75, 83, 83, 82, 82,
      86, 86, 86, 86, 65, 65, 65, 65, 68, 68, 69, 69, 71, 71, 71, 71>>

\* _dna_to_amino_acids: one letter for each whole codon
dna_to_amino_acids(dna_sequence) ==
    LET number(b) == CASE b = 84 -> 0 [] b = 67 -> 1 [] b = 65 -> 2 [] b = 71 -> 3
    IN  [k \in 1..(Len(dna_sequence) \div 3) |->
            CodonTable[16 * number(dna_sequence[3 * k - 2])
                       + 4 * number(dna_sequence[3 * k - 1])
                       + number(dna_sequence[3 * k]) + 1]]

\* encode
DnaEncoder_encode(data, s) ==
    LET dna_sequence == binary_to_dna(BinaryData(data))
        mutated == apply_mutations(dna_sequence, s)
        introns == generate_introns(Len(mutated.val.sequence), mutated.rng)
        spliced_sequence == splice_introns(mutated.val.sequence, introns.val)
    IN  IF ~mutated.ok THEN mutated
        ELSE [ok |-> TRUE,
              val |-> [encoded |->
                          [primary_sequence |-> spliced_sequence,
                           complement |-> create_complement(mutated.val.sequence),
                           amino_sequence |-> dna_to_amino_acids(spliced_sequence)],
                       metadata |-> [mutation_map |-> mutated.val.mutation_map,
                                     intron_positions |-> introns.val,
                                     original_length |-> Len(data),
                                     sequence_length |-> Len(dna_sequence)]],
              rng |-> introns.rng]

\* decode
DnaEncoder_decode(encoded_data, metadata) ==
    LET clean_sequence == remove_introns(encoded_data.primary_sequence,
                                         metadata.intron_positions)
        original_sequence == reverse_mutations(clean_sequence,
                                               metadata.mutation_map)
    IN  IF ~original_sequence.ok THEN original_sequence
        ELSE Ok(BinaryToString(dna_to_binary(original_sequence.val),
                               metadata.original_length))

(***************************************************************************)
(* RuntimeReconstructor.  The base64 and JSON wrapping of the payload is   *)
(* left as the value wrapped; the loader text and the description of the   *)
(* execution environment, which decode does not read, are left out.        *)
(***************************************************************************)
\* list(self.reconstruction_methods.keys())
ReconstructionMethods ==
    <<"bytecode_assembly", "ast_reconstruction", "string_concatenation",
      "function_composition", "dynamic_import">>

\* the texts of the inputs that ast.parse and compile reject:
\* '(' and 'a:\nb'
SyntaxErrorTexts == {<<40>>, <<97, 58, 10, 98>>}

\* str.strip()
RECURSIVE Strip(_)
Strip(q) ==
    IF q = <<>> THEN q
    ELSE IF q[1] \in {9, 10, 13, 32} THEN Strip(Tail(q))
    ELSE IF q[Len(q)] \in {9, 10, 13, 32} THEN Strip(SubSeq(q, 1, Len(q) - 1))
    ELSE q

\* base64.b64encode(text.encode()).decode()
b64encode_text(text) ==
    LET b == Utf8Encode(text)
    IN  IF b.ok THEN Ok(B64Encode(b.val)) ELSE b

\* base64.b64decode(s).decode()
b64decode_text(s) ==
    LET b == B64Decode(s)
    IN  IF b.ok THEN Utf8Decode(b.val) ELSE b

\* the loop of _string_concatenation_method from chunk number i (counted
\* from 0) on
RECURSIVE EncodeChunks(_, _, _, _)
EncodeChunks(chunks, i, encoded_chunks, s) ==
    IF i >= Len(chunks) THEN [ok |-> TRUE, val |-> encoded_chunks, rng |-> s]
    ELSE LET chunk == chunks[i + 1]
             b64 == b64encode_text(chunk)
             key == RandInt(s, 1, 255)
         IN  IF i % 3 = 0
             THEN IF ~b64.ok THEN b64 @@ [rng |-> s]
                  ELSE EncodeChunks(chunks, i + 1,
                                    Append(encoded_chunks,
                                           [type |-> "base64", data |-> b64.val]),
                                    s)
             ELSE IF i % 3 = 1
             THEN EncodeChunks(chunks, i + 1,
                               Append(encoded_chunks,
                                      [type |-> "charcode", data |-> chunk]),
                               s)
             ELSE EncodeChunks(chunks, i + 1,
                               Append(encoded_chunks,
                                      [type |-> "xor",
                                       data |-> [k \in 1..Len(chunk) |->
                                                    BitXor(chunk[k], key.val)],
                                       key |-> key.val]),
                               key.rng)

\* _string_concatenation_method
string_concatenation_method(code, s) ==
    LET chunk_size == RandInt(s, 10, 50)
        chunks == [k \in 1..((Len(code) + chunk_size.val - 1) \div chunk_size.val)
                     |-> SubSeq(code, (k - 1) * chunk_size.val + 1,
                                IF k * chunk_size.val < Len(code)
                                THEN k * chunk_size.val ELSE Len(code))]
    IN  EncodeChunks(chunks, 0, <<>>, chunk_size.rng)

\* line.strip().startswith(('def ', 'class ')) or line.strip().endswith(':')
BreaksAfter(line) ==
    LET t == Strip(line)
    IN  \/ Len(t) >= 4 /\ SubSeq(t, 1, 4) = <<100, 101, 102, 32>>
        \/ Len(t) >= 6 /\ SubSeq(t, 1, 6) = <<99, 108, 97, 115, 115, 32>>
        \/ t # <<>> /\ t[Len(t)] = 58

\* the loop of _break_into_components from line number i on, then the
\* remaining lines
RECURSIVE ComponentsFrom(_, _, _, _)
ComponentsFrom(lines, i, components, current_component) ==
    IF i > Len(lines)
    THEN IF current_component # <<>>
         THEN Append(components, Join(<<10>>, current_component))
         ELSE components
    ELSE LET current == Append(current_component, lines[i])
         IN  IF BreaksAfter(lines[i]) \/ Len(current) > 10
             THEN ComponentsFrom(lines, i + 1,
                                 Append(components, Join(<<10>>, current)), <<>>)
             ELSE ComponentsFrom(lines, i + 1, components, current)

\* _break_into_components
break_into_components(code) == ComponentsFrom(Split(code, 10), 1, <<>>, <<>>)

\* _function_composition_method
function_composition_method(code) ==
    LET components == break_into_components(code)
        encoded == [i \in 1..Len(components) |-> b64encode_text(components[i])]
    IN  IF \E i \in 1..Len(encoded) : ~encoded[i].ok
        THEN Err("UnicodeEncodeError")
        ELSE Ok([i \in 1..Len(components) |->
                    [name |-> i - 1, encoded_data |-> encoded[i].val,
                     dependencies |-> <<>>]])

\* _dynamic_import_method; imports is empty for the inputs, which import
\* nothing
dynamic_import_method(code, s) ==
    LET number == RandInt(s, 1000, 9999)
        code_content == b64encode_text(code)
    IN  IF ~code_content.ok THEN code_content @@ [rng |-> number.rng]
        ELSE [ok |-> TRUE,
              val |-> [module_name |-> number.val,
                       code_content |-> code_content.val,
                       imports |-> <<>>],
              rng |-> number.rng]

\* self.reconstruction_methods[method](data, code_structure).  The code
\* object of _bytecode_assembly_method and the tree of
\* _ast_reconstruction_method are held by the text they were made from;
\* compile and ast.parse raise SyntaxError.
ReconstructionData(method, data, s) ==
    CASE method \in {"bytecode_assembly", "ast_reconstruction"} ->
            IF data \in SyntaxErrorTexts
            THEN [ok |-> FALSE, err |-> "SyntaxError", rng |-> s]
            ELSE [ok |-> TRUE, val |-> [source |-> data], rng |-> s]
      [] method = "string_concatenation" -> string_concatenation_method(data, s)
      [] method = "function_composition" ->
            function_composition_method(data) @@ [rng |-> s]
      [] method = "dynamic_import" -> dynamic_import_method(data, s)

\* encode.  code_structure is the fallback for a text that does not parse
\* and the five lists of _analyze_code_structure, empty for the inputs,
\* which hold no import, definition or assignment.
RuntimeReconstructor_encode(data, s) ==
    LET method == RandChoice(s, ReconstructionMethods)
        reconstruction_data == ReconstructionData(method.val, data, method.rng)
    IN  IF ~reconstruction_data.ok THEN reconstruction_data
        ELSE [ok |-> TRUE,
              val |-> [encoded |->
                          [reconstruction_data |->
                              [method |-> method.val,
                               data |-> reconstruction_data.val]],
                       metadata |->
                          [method |-> method.val,
                           original_length |-> Len(data),
                           code_structure |->
                              IF data \in SyntaxErrorTexts
                              THEN [type |-> "raw_string", content |-> data]
                              ELSE [type |-> "module"],
                           reconstruction_complexity |->
                              IF method.val = "ast_reconstruction" THEN 4 ELSE 3]],
              rng |-> reconstruction_data.rng]

\* "# Reconstruction method not implemented for decode"
NotImplementedText ==
    <<35, 32, 82, 101, 99, 111, 110, 115, 116, 114, 117, 99, 116, 105, 111,
      110, 32, 109, 101, 116, 104, 111, 100, 32, 110, 111, 116, 32, 105, 109,
      112, 108, 101, 109, 101, 110, 116, 101, 100, 32, 102, 111, 114, 32,
      100, 101, 99, 111, 100, 101>>

\* one chunk of the loop of _reconstruct_code for string_concatenation
DecodeChunk(chunk) ==
    CASE chunk.type = "base64" -> b64decode_text(chunk.data)
      [] chunk.type = "charcode" -> Ok(chunk.data)
      [] chunk.type = "xor" ->
            Ok([k \in 1..Len(chunk.data) |-> BitXor(chunk.data[k], chunk.key)])

\* the decoded parts joined by sep, or the first exception among them
JoinedParts(sep, parts) ==
    IF \E i \in 1..Len(parts) : ~parts[i].ok
    THEN parts[CHOOSE i \in 1..Len(parts) :
                  ~parts[i].ok /\ \A j \in 1..(i - 1) : parts[j].ok]
    ELSE Ok(Join(sep, [i \in 1..Len(parts) |-> parts[i].val]))

\* _reconstruct_code
reconstruct_code(reconstruction_data, method) ==
    CASE method = "string_concatenation" ->
            JoinedParts(<<>>, [i \in 1..Len(reconstruction_data.data) |->
                                  DecodeChunk(reconstruction_data.data[i])])
      [] method = "function_composition" ->
            JoinedParts(<<10>>,
                        [i \in 1..Len(reconstruction_data.data) |->
                            b64decode_text(
                                reconstruction_data.data[i].encoded_data)])
      [] method = "dynamic_import" ->
            b64decode_text(reconstruction_data.data.code_content)
      [] OTHER -> Ok(NotImplementedText)

\* decode
RuntimeReconstructor_decode(encoded_data, metadata) ==
    IF ~HasKey(metadata, "method") THEN Err("KeyError")
    ELSE reconstruct_code(encoded_data.reconstruction_data, metadata.method)

(***************************************************************************)
(* encode / decode of the encoder instance of a technique.  encode draws   *)
(* its parameters from the shared generator in state s.                    *)
(***************************************************************************)
WithRng(r, s) == IF r.ok THEN [ok |-> TRUE, val |-> r.val, rng |-> s]
                 ELSE [ok |-> FALSE, err |-> r.err, rng |-> s]

Encode(encoder, data, s, hash_seed) ==
    CASE encoder = "fast_xor" ->
            LET d == RandInts(s, 4, 1, 255)
            IN  WithRng(FastXOREncoder_encode(data, d.val), d.rng)
      [] encoder = "fast_base64" ->
            LET d == Shuffle(SubstChars, s)
            IN  WithRng(FastBase64Encoder_encode(data, d.val), d.rng)
      [] encoder = "fast_rotation" ->
            LET d == RandInts(s, 3, 1, 25)
            IN  WithRng(FastRotationEncoder_encode(data, d.val), d.rng)
      [] encoder = "fast_hash" ->
            WithRng(FastHashEncoder_encode(data), s)
      [] encoder = "fast_binary" ->
            LET d == RandInt(s, 1, 7)
            IN  WithRng(FastBinaryEncoder_encode(data, d.val), d.rng)
      [] encoder = "fast_lookup" ->
            LET d == Shuffle(ListOfSet(data, hash_seed), s)
            IN  WithRng(FastLookupEncoder_encode(data, d.val), d.rng)
      [] encoder = "simple" ->
            LET d == RandInt(s, 1, 255)
            IN  WithRng(SimpleEncoder_encode(data, d.val), d.rng)
      [] encoder = "steganographic" -> SteganographicEncoder_encode(data, s)
      [] encoder = "quantum" -> QuantumEncoder_encode(data, s)
      [] encoder = "dna" -> DnaEncoder_encode(data, s)
      [] encoder = "runtime" -> RuntimeReconstructor_encode(data, s)

Decode(encoder, encoded_data, metadata) ==
    CASE encoder = "fast_xor" -> FastXOREncoder_decode(encoded_data, metadata)
      [] encoder = "fast_base64" -> FastBase64Encoder_decode(encoded_data, metadata)
      [] encoder = "fast_rotation" -> FastRotationEncoder_decode(encoded_data, metadata)
      [] encoder = "fast_hash" -> FastHashEncoder_decode(encoded_data, metadata)
      [] encoder = "fast_binary" -> FastBinaryEncoder_decode(encoded_data, metadata)
      [] encoder = "fast_lookup" -> FastLookupEncoder_decode(encoded_data, metadata)
      [] encoder = "simple" -> SimpleEncoder_decode(encoded_data, metadata)
      [] encoder = "steganographic" ->
            SteganographicEncoder_decode(encoded_data, metadata)
      [] encoder = "dna" -> DnaEncoder_decode(encoded_data, metadata)
      [] encoder = "runtime" ->
            RuntimeReconstructor_decode(encoded_data, metadata)

\* decode where floating-point rounding has a say (QuantumEncoder only)
DecodeRounded(encoder, encoded_data, metadata, rounded_up) ==
    IF encoder = "quantum"
    THEN QuantumEncoder_decode(encoded_data, metadata, rounded_up)
    ELSE Decode(encoder, encoded_data, metadata)

(***************************************************************************)
(* json.dump(result, f, indent=2, default=str) and json.load(f).  A str    *)
(* is written as its escaped characters (ensure_ascii), an int as its      *)
(* decimal digits; lists and dicts keep their shape, dict keys are str.    *)
(***************************************************************************)
Hex4(n) == [j \in 1..4 |-> HexDigit((n \div Pow16(4 - j)) % 16)]

HexValue(c) ==
    IF c >= 48 /\ c <= 57 THEN c - 48
    ELSE IF c >= 97 /\ c <= 102 THEN c - 87
    ELSE c - 55

JsonEscapeChar(cp) ==
    IF cp = 34 THEN <<92, 34>>
    ELSE IF cp = 92 THEN <<92, 92>>
    ELSE IF cp = 10 THEN <<92, 110>>
    ELSE IF cp = 13 THEN <<92, 114>>
    ELSE IF cp = 9 THEN <<92, 116>>
    ELSE IF cp = 12 THEN <<92, 102>>
    ELSE IF cp = 8 THEN <<92, 98>>
    ELSE IF cp >= 32 /\ cp <= 126 THEN <<cp>>
    ELSE IF cp < 65536 THEN <<92, 117>> \o Hex4(cp)
    ELSE <<92, 117>> \o Hex4(55296 + ((cp - 65536) \div 1024))
         \o <<92, 117>> \o Hex4(56320 + ((cp - 65536) % 1024))

\* the text of a JSON string, without the enclosing quotes
JsonDumpStr(s) == Flatten([i \in 1..Len(s) |-> JsonEscapeChar(s[i])])

U4(j, i) == HexValue(j[i + 2]) * 4096 + HexValue(j[i + 3]) * 256
            + HexValue(j[i + 4]) * 16 + HexValue(j[i + 5])

\* the number of backslashes that directly precede position i
RECURSIVE BackslashesBefore(_, _)
BackslashesBefore(j, i) ==
    IF i > 1 /\ j[i - 1] = 92 THEN 1 + BackslashesBefore(j, i - 1) ELSE 0

\* an escape starts at a backslash that an even number of backslashes
\* precede; it is six characters long when 'u' follows, else two
EscapeAt(j, i) ==
    i >= 1 /\ i <= Len(j) /\ j[i] = 92 /\ BackslashesBefore(j, i) % 2 = 0

UEscapeIn(j, i, lo, hi) ==
    EscapeAt(j, i) /\ i + 5 <= Len(j) /\ j[i + 1] = 117
    /\ U4(j, i) >= lo /\ U4(j, i) <= hi

InsideEscape(j, i) ==
    \/ EscapeAt(j, i - 1)
    \/ \E e \in (i - 5)..(i - 2) : EscapeAt(j, e) /\ j[e + 1] = 117

\* an escaped low surrogate right after an escaped high surrogate belongs
\* to the character the high surrogate starts
JoinedLow(j, i) ==
    UEscapeIn(j, i, 56320, 57343) /\ UEscapeIn(j, i - 6, 55296, 56319)

JsonCharAt(j, i) ==
    IF j[i] # 92 THEN j[i]
    ELSE IF j[i + 1] = 117
         THEN IF UEscapeIn(j, i, 55296, 56319) /\ UEscapeIn(j, i + 6, 56320, 57343)
              THEN 65536 + (U4(j, i) - 55296) * 1024 + (U4(j, i + 6) - 56320)
              ELSE U4(j, i)
    ELSE IF j[i + 1] = 110 THEN 10
    ELSE IF j[i + 1] = 114 THEN 13
    ELSE IF j[i + 1] = 116 THEN 9
    ELSE IF j[i + 1] = 102 THEN 12
    ELSE IF j[i + 1] = 98 THEN 8
    ELSE j[i + 1]

\* the scanner of json.load on the text of a string: one character per
\* plain character or escape
JsonLoadStr(j) ==
    LET starts == SelectSeq([i \in 1..Len(j) |-> i],
                            LAMBDA i : ~InsideEscape(j, i) /\ ~JoinedLow(j, i))
    IN  [k \in 1..Len(starts) |-> JsonCharAt(j, starts[k])]

JsonDumpInt(n) == DecDigits(n)

RECURSIVE DigitsValue(_, _)
DigitsValue(d, n) ==
    IF n = 0 THEN 0 ELSE DigitsValue(d, n - 1) * 10 + (d[n] - 48)

JsonLoadInt(d) == DigitsValue(d, Len(d))

IntKeys == {"original_length", "shift", "key"}

IntListKeys == {"keys", "rotations"}

\* one metadata value: an int, a list of int, or a dict of str to str
JsonDumpValue(key, v) ==
    IF key \in IntKeys THEN JsonDumpInt(v)
    ELSE IF key \in IntListKeys THEN [i \in 1..Len(v) |-> JsonDumpInt(v[i])]
    ELSE [k \in {JsonDumpStr(x) : x \in DOMAIN v} |->
            JsonDumpStr(v[CHOOSE x \in DOMAIN v : JsonDumpStr(x) = k])]

JsonLoadValue(key, j) ==
    IF key \in IntKeys THEN JsonLoadInt(j)
    ELSE IF key \in IntListKeys THEN [i \in 1..Len(j) |-> JsonLoadInt(j[i])]
    ELSE [k \in {JsonLoadStr(x) : x \in DOMAIN j} |->
            JsonLoadStr(j[CHOOSE x \in DOMAIN j : JsonLoadStr(x) = k])]

JsonDumpMetadata(m) == [key \in DOMAIN m |-> JsonDumpValue(key, m[key])]

JsonLoadMetadata(j) == [key \in DOMAIN j |-> JsonLoadValue(key, j[key])]

\* json.dump(result, f, indent=2, default=str)
JsonDump(r) ==
    [technique |-> r.technique,     \* an ASCII name: no character is escaped
     layers |-> JsonDumpInt(r.layers),
     payload |-> JsonDumpStr(r.payload),
     metadata_stack |-> [i \in 1..Len(r.metadata_stack) |->
                            JsonDumpMetadata(r.metadata_stack[i])]]

\* json.load(f)
JsonLoad(j) ==
    [technique |-> j.technique,
     layers |-> JsonLoadInt(j.layers),
     payload |-> JsonLoadStr(j.payload),
     metadata_stack |-> [i \in 1..Len(j.metadata_stack) |->
                            JsonLoadMetadata(j.metadata_stack[i])]]

(***************************************************************************)
(* The layered pipeline: obfuscate(text, technique, layers, seed) and      *)
(* deobfuscate(result), with the callers' steps around them (the registry  *)
(* lookup, --save-data and the reading back of the saved file).            *)
(*                                                                         *)
(* An optional value is <<>> (None) or <<v>>.                              *)
(***************************************************************************)
VARIABLES
    avail,      \* the advanced techniques whose import succeeded
    rng,        \* the state of the generator of the random module
    hashSeed,   \* the string-hash seed of the process
    lookup,     \* the outcome of the last registry lookup
    pc,         \* the state of the pipeline
    call,       \* the arguments of the obfuscate call
    cur,        \* the current payload
    stack,      \* the metadata stack being built
    layer,      \* the layer being encoded / decoded
    result,     \* the result object obfuscate returned
    prev,       \* the result object of the earlier call with these arguments
    saved,      \* the file written by --save-data
    envelope,   \* the result object handed to deobfuscate
    loaded,     \* envelope was read from the saved file
    tampered,   \* a key was deleted from envelope's metadata
    restored,   \* the text deobfuscate returned
    error,      \* the error the failing call raised
    encodeLog,  \* the encode calls of the obfuscate call, in order
    decodeLog,  \* the decode calls of the deobfuscate call, in order
    wk,         \* the worker threads of the GUI, each in its obfuscate call
    stage,      \* the import of the encoders package: "importing", "ready"
    importLog,  \* the outcome of each optional import so far, in order
    listed,     \* what each listing function returned when last called
    unit,       \* the encoder call made on its own, outside the pipeline
    picker,     \* the technique picker of the GUI window
    batch,      \* the run of the BatchObfuscationWorker
    web         \* the request the web server is answering

vars == <<avail, rng, hashSeed, lookup, pc, call, cur, stack, layer, result,
          prev, saved, envelope, loaded, tampered, restored, error,
          encodeLog, decodeLog, wk, stage, importLog, listed, unit,
          picker, batch, web>>

auxVars == <<stage, importLog, listed, unit, picker, batch, web>>

NoCall == [text |-> <<>>, technique |-> "", layers |-> 0, seed |-> <<>>]

\* the worker threads: the ObfuscationWorker and the BatchObfuscationWorker
Workers == {"worker", "batch_worker"}

IdleWorker ==
    [pc |-> "idle", call |-> NoCall, start |-> 0, cur |-> <<>>,
     stack |-> <<>>, layer |-> 0, result |-> <<>>]

\* the processes: the advanced techniques whose import succeeded
\* (dna_encoder needs the standard library only; quantum and fractal need
\* numpy; the remaining modules import obfuscator_core, which the package
\* does not ship) and the string-hash seed
Processes ==
    {[avail |-> {"dna"}, hashSeed |-> 0],
     [avail |-> {"dna", "quantum", "fractal"}, hashSeed |-> 1]}

Techniques ==
    {get_fast_techniques[i] : i \in 1..Len(get_fast_techniques)}
    \cup {"nonexistent_technique"}

LookupNames == Techniques \cup AdvancedNames

Seeds == {<<>>, <<1234>>}

\* the states the unseeded generator may start in
Entropy == {0}

\* the listing functions of the registry
Listings ==
    {"get_available_techniques", "get_fast_techniques",
     "get_advanced_techniques", "get_technique_info"}

NotListed == [fn \in Listings |-> <<>>]

Init ==
    /\ \E p \in Processes : avail = p.avail /\ hashSeed = p.hashSeed
    /\ rng \in Entropy
    /\ lookup = <<>>
    /\ pc = "idle"
    /\ call = NoCall
    /\ cur = <<>>
    /\ stack = <<>>
    /\ layer = 0
    /\ result = <<>>
    /\ prev = <<>>
    /\ saved = <<>>
    /\ envelope = <<>>
    /\ loaded = FALSE
    /\ tampered = FALSE
    /\ restored = <<>>
    /\ error = <<>>
    /\ encodeLog = <<>>
    /\ decodeLog = <<>>
    /\ wk = [w \in Workers |-> IdleWorker]
    /\ stage = "ready"
    /\ importLog = [i \in 1..Len(ImportOrder) |->
                       IF ImportOrder[i] \in avail THEN "ok" ELSE "ImportError"]
    /\ listed = NotListed
    /\ unit = <<>>
    /\ picker = <<>>
    /\ batch = <<>>
    /\ web = <<>>

\* get_encoder_class(name), called on its own
Lookup(name) ==
    /\ pc = "idle"
    /\ stage = "ready"
    /\ lookup' = <<[name |-> name, call |-> "get_encoder_class",
                    outcome |-> Ok(get_encoder_class(avail, name))]>>
    /\ UNCHANGED <<auxVars, wk, avail, rng, hashSeed, pc, call, cur, stack, layer, result,
                   prev, saved, envelope, loaded, tampered, restored, error,
                   encodeLog, decodeLog>>

\* the text is not tested
Rejections_empty_accepted(text, encoder) ==
    {e \in {"UnsupportedTechniqueError"} : encoder = None}

\* create_encoder(name), called on its own
CreateEncoder(name) ==
    /\ pc = "idle"
    /\ stage = "ready"
    /\ lookup' = <<[name |-> name, call |-> "create_encoder",
                    outcome |-> Ok(create_encoder(avail, name))]>>
    /\ UNCHANGED <<auxVars, wk, avail, rng, hashSeed, pc, call, cur, stack,
                   layer, result, prev, saved, envelope, loaded, tampered,
                   restored, error, encodeLog, decodeLog>>

\* the preconditions of obfuscate that the arguments break
Rejections(text, encoder) ==
    {e \in {"InvalidInputError", "UnsupportedTechniqueError"} :
        \/ e = "InvalidInputError" /\ text = <<>>
        \/ e = "UnsupportedTechniqueError" /\ encoder = None}

\* the seed is accepted and never used
SeedGenerator_unseeded(s, seed) == s

\* if seed is provided, seed the random source before the first layer
SeedGenerator(s, seed) == IF seed = <<>> THEN s ELSE RandSeed(seed[1])

\* the metadata is put in front: the stack is ordered last-applied-first
PushMetadata_prepend(metadata_stack, metadata) == <<metadata>> \o metadata_stack

\* append the returned metadata to metadata_stack in application order
PushMetadata(metadata_stack, metadata) == Append(metadata_stack, metadata)

\* the result object of a call whose last layer returned payload
MakeResult(c, payload, metadata_stack) ==
    [technique |-> c.technique, layers |-> c.layers, payload |-> payload,
     metadata_stack |-> metadata_stack]

\* obfuscate, up to its first layer: the encoder is created through the
\* registry, the arguments are checked and the generator is seeded
Begin(text, technique, layers, seed) ==
    LET encoder == create_encoder(avail, technique)
        broken == Rejections(text, encoder)
    IN  /\ call' = [text |-> text, technique |-> technique, layers |-> layers,
                    seed |-> seed]
        /\ lookup' = <<[name |-> technique, call |-> "create_encoder",
                        outcome |-> Ok(encoder)]>>
        /\ result' = <<>>
        /\ encodeLog' = <<>>
        /\ stack' = <<>>
        /\ IF broken # {}
           THEN /\ \E e \in broken : error' = <<[kind |-> e, layer |-> 0]>>
                /\ pc' = "failed"
                /\ UNCHANGED <<rng, cur, layer>>
           ELSE /\ rng' = SeedGenerator(rng, seed)
                /\ cur' = text
                /\ layer' = 1
                /\ pc' = "encoding"
                /\ UNCHANGED error

StartObfuscate(text, technique, layers, seed) ==
    /\ pc = "idle"
    /\ Begin(text, technique, layers, seed)
    /\ UNCHANGED <<auxVars, wk, avail, hashSeed, prev, saved, envelope, loaded, tampered,
                   restored, decodeLog>>

\* one layer of obfuscate: encode the current payload, keep the metadata;
\* the last layer's payload is returned in the result object
EncodeLayer ==
    /\ pc = "encoding"
    /\ \E r \in {Encode(create_encoder(avail, call.technique), cur, rng, hashSeed)} :
           /\ rng' = r.rng
           /\ encodeLog' = Append(encodeLog,
                  IF r.ok THEN [input |-> cur, ok |-> TRUE,
                                payload |-> r.val.encoded,
                                metadata |-> r.val.metadata]
                  ELSE [input |-> cur, ok |-> FALSE])
           /\ IF ~r.ok
              THEN /\ pc' = "failed"
                   /\ error' = <<[kind |-> r.err, layer |-> layer]>>
                   /\ UNCHANGED <<cur, stack, layer, result, envelope>>
              ELSE IF layer < call.layers
              THEN /\ cur' = r.val.encoded
                   /\ stack' = PushMetadata(stack, r.val.metadata)
                   /\ layer' = layer + 1
                   /\ UNCHANGED <<pc, error, result, envelope>>
              ELSE /\ cur' = r.val.encoded
                   /\ stack' = PushMetadata(stack, r.val.metadata)
                   /\ result' = <<MakeResult(call, cur', stack')>>
                   /\ envelope' = IF prev = <<>> THEN result' ELSE envelope
                   /\ pc' = "complete"
                   /\ UNCHANGED <<layer, error>>
    /\ UNCHANGED <<auxVars, wk, avail, hashSeed, lookup, call, prev, saved, loaded,
                   tampered, restored, decodeLog>>

\* the same call once more in the same process
ObfuscateAgain ==
    /\ pc = "complete"
    /\ prev = <<>>
    /\ saved = <<>>
    /\ ~tampered
    /\ prev' = result
    /\ Begin(call.text, call.technique, call.layers, call.seed)
    /\ UNCHANGED <<auxVars, wk, avail, hashSeed, saved, envelope, loaded, tampered,
                   restored, decodeLog>>

\* --save-data: json.dump(result, f, indent=2, default=str)
SaveData ==
    /\ pc = "complete"
    /\ prev = <<>>
    /\ saved = <<>>
    /\ ~tampered
    /\ saved' = <<JsonDump(result[1])>>
    /\ UNCHANGED <<auxVars, wk, avail, rng, hashSeed, lookup, pc, call, cur, stack, layer,
                   result, prev, envelope, loaded, tampered, restored, error,
                   encodeLog, decodeLog>>

\* the saved file is read back: json.load(f)
LoadData ==
    /\ pc = "complete"
    /\ saved # <<>>
    /\ ~loaded
    /\ ~tampered
    /\ envelope' = <<JsonLoad(saved[1])>>
    /\ loaded' = TRUE
    /\ UNCHANGED <<auxVars, wk, avail, rng, hashSeed, lookup, pc, call, cur, stack, layer,
                   result, prev, saved, tampered, restored, error, encodeLog,
                   decodeLog>>

\* del result['metadata_stack'][i][key], by the holder of the result object
DeleteKey(i, key) ==
    /\ pc = "complete"
    /\ prev = <<>>
    /\ saved = <<>>
    /\ ~tampered
    /\ i \in 1..Len(envelope[1].metadata_stack)
    /\ HasKey(envelope[1].metadata_stack[i], key)
    /\ envelope' = <<[envelope[1] EXCEPT
                        !.metadata_stack[i] = DelKey(@, key)]>>
    /\ tampered' = TRUE
    /\ UNCHANGED <<auxVars, wk, avail, rng, hashSeed, lookup, pc, call, cur, stack, layer,
                   result, prev, saved, loaded, restored, error, encodeLog,
                   decodeLog>>

\* walk metadata_stack in reverse order: the layer decoded first, and the
\* layer decoded after layer i
FirstDecoded(r) == Len(r.metadata_stack)

\* every other layer is skipped
NextDecoded_skip(i) == i - 2

NextDecoded(i) == i - 1

\* deobfuscate(result), up to its first decode call
StartDeobfuscate ==
    /\ pc = "complete"
    /\ prev = <<>>
    /\ create_encoder(avail, envelope[1].technique) # None
    /\ Len(envelope[1].metadata_stack) = envelope[1].layers
    /\ cur' = envelope[1].payload
    /\ layer' = FirstDecoded(envelope[1])
    /\ decodeLog' = <<>>
    /\ pc' = "decoding"
    /\ UNCHANGED <<auxVars, wk, avail, rng, hashSeed, lookup, call, stack, result, prev,
                   saved, envelope, loaded, tampered, restored, error,
                   encodeLog>>

\* the error does not say which layer failed
DecodeFailure_unindexed(i) == [kind |-> "DecodeError", layer |-> 0]

\* a decode failure surfaces a DecodeError naming the failing layer index
DecodeFailure(i) == [kind |-> "DecodeError", layer |-> i]

\* one layer of deobfuscate: decode the current payload with the layer's
\* metadata; the text decoded with the first entry is returned
DecodeLayer ==
    /\ pc = "decoding"
    /\ LET metadata == envelope[1].metadata_stack[layer]
           r == Decode(create_encoder(avail, envelope[1].technique), cur,
                       metadata)
       IN  /\ decodeLog' = Append(decodeLog,
                  IF r.ok THEN [layer |-> layer, input |-> cur,
                                metadata |-> metadata, ok |-> TRUE,
                                output |-> r.val]
                  ELSE [layer |-> layer, input |-> cur,
                        metadata |-> metadata, ok |-> FALSE])
           /\ IF ~r.ok
              THEN /\ pc' = "failed"
                   /\ error' = <<DecodeFailure(layer)>>
                   /\ UNCHANGED <<cur, layer, restored>>
              ELSE IF NextDecoded(layer) >= 1
              THEN /\ cur' = r.val
                   /\ layer' = NextDecoded(layer)
                   /\ UNCHANGED <<pc, error, restored>>
              ELSE /\ cur' = r.val
                   /\ restored' = <<r.val>>
                   /\ pc' = "restored"
                   /\ UNCHANGED <<layer, error>>
    /\ UNCHANGED <<auxVars, wk, avail, rng, hashSeed, lookup, call, stack, result, prev,
                   saved, envelope, loaded, tampered, encodeLog>>

\* the keys an encoder's metadata can hold
MetadataKeys ==
    {"original_length", "keys", "char_map", "rotations", "hash_map", "shift",
     "lookup_table", "key"}

Next ==
    \/ \E name \in LookupNames : Lookup(name)
    \/ \E name \in LookupNames : CreateEncoder(name)
    \/ SaveData
    \/ LoadData
    \/ \E i \in 1..MaxLayers, key \in MetadataKeys : DeleteKey(i, key)
    \/ StartDeobfuscate
    \/ DecodeLayer
    \/ \E text \in Texts, technique \in Techniques, layers \in 1..MaxLayers,
          seed \in Seeds : StartObfuscate(text, technique, layers, seed)
    \/ EncodeLayer
    \/ ObfuscateAgain

Spec == Init /\ [][Next]_vars

(***************************************************************************)
(* Two worker threads of one process, each in a call of obfuscate.  The    *)
(* threads share the generator of the random module; a thread switch can   *)
(* happen between any two steps of a call.                                 *)
(***************************************************************************)
seqVars == <<auxVars, avail, hashSeed, lookup, pc, call, cur, stack, layer, result,
             prev, saved, envelope, loaded, tampered, restored, error,
             encodeLog, decodeLog>>

ConcTexts == {<<97>>}

ConcTechniques == {"fast_xor", "fast_binary"}

ConcSeeds == {<<>>, <<1234>>, <<12345>>}

\* run(): obfuscator.obfuscate(code, technique, layers, seed), up to the
\* first layer
WorkerRun(w, text, technique, layers, seed) ==
    /\ wk[w].pc = "idle"
    /\ Rejections(text, create_encoder(avail, technique)) = {}
    /\ rng' = SeedGenerator(rng, seed)
    /\ wk' = [wk EXCEPT ![w] =
                 [pc |-> "encoding",
                  call |-> [text |-> text, technique |-> technique,
                            layers |-> layers, seed |-> seed],
                  start |-> rng, cur |-> text, stack |-> <<>>, layer |-> 1,
                  result |-> <<>>]]
    /\ UNCHANGED seqVars

\* one layer of the worker's obfuscate call
WorkerEncode(w) ==
    /\ wk[w].pc = "encoding"
    /\ \E r \in {Encode(create_encoder(avail, wk[w].call.technique), wk[w].cur,
                       rng, hashSeed)} :
       LET metadata_stack == PushMetadata(wk[w].stack, r.val.metadata)
       IN  /\ r.ok
           /\ rng' = r.rng
           /\ wk' = [wk EXCEPT ![w] =
                 IF wk[w].layer < wk[w].call.layers
                 THEN [@ EXCEPT !.cur = r.val.encoded,
                                !.stack = metadata_stack,
                                !.layer = @ + 1]
                 ELSE [@ EXCEPT !.cur = r.val.encoded,
                                !.stack = metadata_stack,
                                !.pc = "complete",
                                !.result = <<MakeResult(wk[w].call,
                                               r.val.encoded,
                                               metadata_stack)>>]]
    /\ UNCHANGED seqVars

NextConc ==
    \/ \E w \in Workers, text \in ConcTexts, technique \in ConcTechniques,
          layers \in 1..MaxLayers, seed \in ConcSeeds :
            WorkerRun(w, text, technique, layers, seed)
    \/ \E w \in Workers : WorkerEncode(w)

SpecConc == Init /\ [][NextConc]_vars

(***************************************************************************)
(* The import of the encoders package: the optional imports set the        *)
(* availability flags (avail holds the names whose flag is True), the      *)
(* registry is built from the flags, and the listing and lookup functions  *)
(* are called on the finished module.                                      *)
(***************************************************************************)
InitRegistry ==
    /\ avail = {}
    /\ hashSeed = 0
    /\ rng \in Entropy
    /\ lookup = <<>>
    /\ pc = "idle"
    /\ call = NoCall
    /\ cur = <<>>
    /\ stack = <<>>
    /\ layer = 0
    /\ result = <<>>
    /\ prev = <<>>
    /\ saved = <<>>
    /\ envelope = <<>>
    /\ loaded = FALSE
    /\ tampered = FALSE
    /\ restored = <<>>
    /\ error = <<>>
    /\ encodeLog = <<>>
    /\ decodeLog = <<>>
    /\ wk = [w \in Workers |-> IdleWorker]
    /\ stage = "importing"
    /\ importLog = <<>>
    /\ listed = NotListed
    /\ unit = <<>>
    /\ picker = <<>>
    /\ batch = <<>>
    /\ web = <<>>

\* the next try statement; found: the module and what it imports exist
ImportEncoder(found) ==
    /\ stage = "importing"
    /\ LET name == ImportOrder[Len(importLog) + 1]
           r == TryImport(found)
       IN  /\ importLog' = Append(importLog,
                                  IF found THEN "ok" ELSE "ImportError")
           /\ IF r.raised
              THEN /\ stage' = "failed"
                   /\ UNCHANGED avail
              ELSE /\ avail' = IF r.flag THEN avail \cup {name} ELSE avail
                   /\ stage' = IF Len(importLog') = Len(ImportOrder)
                               THEN "ready" ELSE "importing"
    /\ UNCHANGED <<wk, rng, hashSeed, lookup, pc, call, cur, stack, layer,
                   result, prev, saved, envelope, loaded, tampered, restored,
                   error, encodeLog, decodeLog, listed, unit,
                   picker, batch, web>>

\* the names a listing function returns
ListingValue(fn, available) ==
    CASE fn = "get_available_techniques" -> get_available_techniques(available)
      [] fn = "get_fast_techniques" -> get_fast_techniques
      [] fn = "get_advanced_techniques" -> get_advanced_techniques(available)
      [] fn = "get_technique_info" ->
            [i \in 1..Len(get_technique_info(available)) |->
                get_technique_info(available)[i].name]

CallListing(fn) ==
    /\ stage = "ready"
    /\ listed' = [listed EXCEPT ![fn] = <<ListingValue(fn, avail)>>]
    /\ UNCHANGED <<wk, avail, rng, hashSeed, lookup, pc, call, cur, stack,
                   layer, result, prev, saved, envelope, loaded, tampered,
                   restored, error, encodeLog, decodeLog, stage, importLog,
                   unit, picker, batch, web>>

NextRegistry ==
    \/ \E found \in BOOLEAN : ImportEncoder(found)
    \/ \E fn \in Listings : CallListing(fn)
    \/ \E name \in LookupNames : Lookup(name)
    \/ \E name \in LookupNames : CreateEncoder(name)

SpecRegistry == InitRegistry /\ [][NextRegistry]_vars

(***************************************************************************)
(* One encoder used on its own: encode(data) on a fresh instance, then     *)
(* decode(encoded, metadata) with what encode returned, or with a payload  *)
(* in which a token was replaced.  unit holds the call.                    *)
(***************************************************************************)
\* characters of the inputs: a control character, an upper-case and a
\* lower-case ASCII letter, a Latin-1 letter and a letter above 255
UnitAlphabet == {1, 65, 122, 233, 256}

\* "abcajvaa" + "tg": two chunks of FastHashEncoder with one Md5Hex8
CollidingText == <<97, 98, 99, 97, 106, 118, 97, 97, 116, 103>>

UnitTexts == SeqsUpTo(UnitAlphabet, MaxLen) \cup {CollidingText}

UnitTechniques ==
    {"fast_xor", "fast_base64", "fast_rotation", "fast_hash", "fast_binary",
     "fast_lookup", "simple"}

\* eighteen times 'a': 144 bits
LongText == [i \in 1..18 |-> 97]

\* inputs of the steganographic and of the quantum encoder
StegoTexts == {<<>>, <<65>>, <<1, 233>>, <<256>>, LongText}

QuantumTexts == {<<1>>, <<65>>, <<97>>, <<233>>, <<256>>, <<65, 97>>}

\* inputs of the lookup encoder that hold '#' and digits themselves
LookupTexts ==
    {<<35>>, <<35, 48>>, <<35, 48, 48, 48, 48, 35>>, <<48, 35, 49, 35>>}

\* inputs of the DNA encoder: at most five characters, twenty bases
DnaTexts == {<<>>, <<97>>, <<1, 233>>, <<65, 122, 65>>, <<97, 98, 99, 100, 101>>}

\* fifty-one lines 'a': 101 characters
ManyLines == [i \in 1..101 |-> IF i % 2 = 1 THEN 97 ELSE 10]

\* inputs of the runtime reconstructor: '', 'a', a Latin-1 letter,
\* 'if a:\n b', the two texts that do not parse, and the long text
RuntimeTexts ==
    {<<>>, <<97>>, <<233>>, <<105, 102, 32, 97, 58, 10, 32, 98>>, ManyLines}
    \cup SyntaxErrorTexts

AdvancedUnitTechniques == {"steganographic", "quantum", "dna", "runtime"}

UnitInputs(technique) ==
    IF technique = "steganographic" THEN StegoTexts
    ELSE IF technique = "quantum" THEN QuantumTexts
    ELSE IF technique = "dna" THEN DnaTexts
    ELSE IF technique = "runtime" THEN RuntimeTexts
    ELSE IF technique = "fast_lookup" THEN UnitTexts \cup LookupTexts
    ELSE UnitTexts

\* states of the generator at the call
UnitEntropy == {0, 1, 2, 3, 4, 5, 6, 50, 100, 150, 201}

InitUnit ==
    /\ avail = {}
    /\ hashSeed \in {0, 1}
    /\ rng \in UnitEntropy
    /\ lookup = <<>>
    /\ pc = "idle"
    /\ call = NoCall
    /\ cur = <<>>
    /\ stack = <<>>
    /\ layer = 0
    /\ result = <<>>
    /\ prev = <<>>
    /\ saved = <<>>
    /\ envelope = <<>>
    /\ loaded = FALSE
    /\ tampered = FALSE
    /\ restored = <<>>
    /\ error = <<>>
    /\ encodeLog = <<>>
    /\ decodeLog = <<>>
    /\ wk = [w \in Workers |-> IdleWorker]
    /\ stage = "ready"
    /\ importLog = [i \in 1..Len(ImportOrder) |-> "ImportError"]
    /\ listed = NotListed
    /\ unit = <<>>
    /\ picker = <<>>
    /\ batch = <<>>
    /\ web = <<>>

unitFrame ==
    <<wk, avail, hashSeed, lookup, pc, call, cur, stack, layer, result, prev,
      saved, envelope, loaded, tampered, restored, error, encodeLog,
      decodeLog, stage, importLog, listed,
      picker, batch, web>>

\* encoder.encode(data)
UnitEncode(technique, data) ==
    /\ unit = <<>>
    /\ \E r \in {Encode(technique, data, rng, hashSeed)} :
           /\ IF r.ok THEN TRUE ELSE r.err # "never_returns"
           /\ rng' = r.rng
           /\ unit' = <<[technique |-> technique,
                         data |-> data,
                         before |-> rng,
                         ok |-> r.ok,
                         payload |-> IF r.ok THEN r.val.encoded ELSE <<>>,
                         metadata |-> IF r.ok THEN <<r.val.metadata>> ELSE <<>>,
                         replaced |-> FALSE,
                         decoded |-> <<>>,
                         rounded |-> {},
                         again |-> <<>>]>>
    /\ UNCHANGED unitFrame

\* the first token of the payload of the hash or lookup encoder replaced by
\* a token of the same shape that the table of the metadata does not hold
UnknownToken(technique) ==
    IF technique = "fast_hash" THEN <<48, 48, 48, 48, 48, 48, 48, 48>>
    ELSE <<35, 57, 57, 57, 57, 35>>

UnitReplaceToken ==
    /\ unit # <<>>
    /\ unit[1].ok
    /\ unit[1].technique \in {"fast_hash", "fast_lookup"}
    /\ ~unit[1].replaced
    /\ unit[1].decoded = <<>>
    /\ LET token == UnknownToken(unit[1].technique)
           table == IF unit[1].technique = "fast_hash"
                    THEN unit[1].metadata[1].hash_map
                    ELSE unit[1].metadata[1].lookup_table
       IN  /\ Len(unit[1].payload) >= Len(token)
           /\ token \notin DOMAIN table
           /\ \A k \in DOMAIN table : table[k] # token
           /\ unit' = <<[unit[1] EXCEPT
                           !.payload = token \o SubSeq(unit[1].payload,
                                                       Len(token) + 1,
                                                       Len(unit[1].payload)),
                           !.replaced = TRUE]>>
    /\ UNCHANGED <<rng, unitFrame>>

\* the metadata of a FastXOREncoder result handed to decode with its 'keys'
\* list emptied
UnitEmptyKeys ==
    /\ unit # <<>>
    /\ unit[1].ok
    /\ unit[1].technique = "fast_xor"
    /\ ~unit[1].replaced
    /\ unit[1].decoded = <<>>
    /\ unit' = <<[unit[1] EXCEPT
                    !.metadata = <<[unit[1].metadata[1] EXCEPT !.keys = <<>>]>>,
                    !.replaced = TRUE]>>
    /\ UNCHANGED <<rng, unitFrame>>

\* the metadata object after decode(payload, metadata) worked with it, with
\* decode_reversing: intron_positions turned round in place
\* (introns.reverse()) where _remove_introns iterates over reversed(introns)
MetadataAfter_reversing(technique, metadata) ==
    IF technique = "dna"
    THEN [metadata EXCEPT
            !.intron_positions =
                [i \in 1..Len(@) |-> @[Len(@) + 1 - i]]]
    ELSE metadata

\* the metadata object after decode(payload, metadata) worked with it:
\* decode binds values of metadata to names and builds new objects from
\* them (a dict comprehension, list(...), reversed(...)); it assigns to no
\* key and calls no method that writes, so the object is as it was given
MetadataAfter(technique, metadata) == metadata

\* encoder.decode(payload, metadata)
UnitDecode ==
    /\ unit # <<>>
    /\ unit[1].ok
    /\ unit[1].decoded = <<>>
    /\ \E rounded_up \in SUBSET (IF unit[1].technique = "quantum"
                                  THEN Tied(unit[1].payload) ELSE {}) :
          unit' = <<[unit[1] EXCEPT
                       !.decoded = <<DecodeRounded(unit[1].technique,
                                                   unit[1].payload,
                                                   unit[1].metadata[1],
                                                   rounded_up)>>,
                       !.metadata = <<MetadataAfter(unit[1].technique,
                                                    unit[1].metadata[1])>>,
                       !.rounded = rounded_up]>>
    /\ UNCHANGED <<rng, unitFrame>>

\* encoder.decode(payload, metadata) once more, with the same two objects
\* (and the same floating-point arithmetic)
UnitDecodeAgain ==
    /\ unit # <<>>
    /\ unit[1].decoded # <<>>
    /\ unit[1].again = <<>>
    /\ unit' = <<[unit[1] EXCEPT
                    !.again = <<DecodeRounded(unit[1].technique,
                                              unit[1].payload,
                                              unit[1].metadata[1],
                                              unit[1].rounded)>>,
                    !.metadata = <<MetadataAfter(unit[1].technique,
                                                 unit[1].metadata[1])>>]>>
    /\ UNCHANGED <<rng, unitFrame>>

NextUnit ==
    \/ \E technique \in UnitTechniques \cup AdvancedUnitTechniques :
          \E data \in UnitInputs(technique) : UnitEncode(technique, data)
    \/ UnitReplaceToken
    \/ UnitEmptyKeys
    \/ UnitDecode
    \/ UnitDecodeAgain

SpecUnit == InitUnit /\ [][NextUnit]_vars

(***************************************************************************)
(* The callers of the core: the GUI window and its batch worker, and the   *)
(* web server.  Each runs in a process whose encoders package is imported, *)
(* with any combination of the optional encoders available.                *)
(***************************************************************************)
coreVars == <<avail, rng, hashSeed, lookup, pc, call, cur, stack, layer, result,
              prev, saved, envelope, loaded, tampered, restored, error,
              encodeLog, decodeLog, wk, stage, importLog, listed, unit>>

InitFront ==
    /\ avail \in SUBSET AdvancedNames
    /\ hashSeed = 0
    /\ rng \in Entropy
    /\ lookup = <<>>
    /\ pc = "idle"
    /\ call = NoCall
    /\ cur = <<>>
    /\ stack = <<>>
    /\ layer = 0
    /\ result = <<>>
    /\ prev = <<>>
    /\ saved = <<>>
    /\ envelope = <<>>
    /\ loaded = FALSE
    /\ tampered = FALSE
    /\ restored = <<>>
    /\ error = <<>>
    /\ encodeLog = <<>>
    /\ decodeLog = <<>>
    /\ wk = [w \in Workers |-> IdleWorker]
    /\ stage = "ready"
    /\ importLog = [i \in 1..Len(ImportOrder) |->
                       IF ImportOrder[i] \in avail THEN "ok" ELSE "ImportError"]
    /\ listed = NotListed
    /\ unit = <<>>
    /\ picker = <<>>
    /\ batch = <<>>
    /\ web = <<>>

\* self.performance_combo.addItems(["fast", "balanced", "full"])
PerformanceModes == {"fast", "balanced", "full"}

\* update_technique_list: the items put into technique_combo and the
\* current one (the first item added to an empty combo box becomes current,
\* then setCurrentText('fast_xor') if it is among the items)
update_technique_list(performance_mode, available) ==
    LET techniques ==
            IF performance_mode = "fast" THEN get_fast_techniques
            ELSE IF performance_mode = "balanced"
            THEN get_fast_techniques \o <<"dna", "steganographic">>
            ELSE get_available_techniques(available)
    IN  [items |-> techniques,
         current |-> IF \E i \in 1..Len(techniques) : techniques[i] = "fast_xor"
                     THEN "fast_xor" ELSE techniques[1]]

\* performance_combo.currentTextChanged -> update_technique_list
UpdateTechniqueList(performance_mode) ==
    /\ stage = "ready"
    /\ picker' = <<[mode |-> performance_mode] @@
                    update_technique_list(performance_mode, avail)>>
    /\ UNCHANGED <<coreVars, batch, web>>

\* the user picks the i-th item of technique_combo
SelectTechnique(i) ==
    /\ picker # <<>>
    /\ i \in 1..Len(picker[1].items)
    /\ picker[1].current # picker[1].items[i]
    /\ picker' = <<[picker[1] EXCEPT !.current = picker[1].items[i]]>>
    /\ UNCHANGED <<coreVars, batch, web>>

NextPicker ==
    \/ \E performance_mode \in PerformanceModes :
          UpdateTechniqueList(performance_mode)
    \/ \E i \in 1..Len(AdvancedOrder) + Len(RegistryFast) : SelectTechnique(i)

SpecPicker == InitFront /\ [][NextPicker]_vars

(***************************************************************************)
(* BatchObfuscationWorker.run.  A file of the batch is readable or         *)
(* missing (open raises); signals is the sequence of signals emitted.      *)
(***************************************************************************)
\* the largest batch: fifty files
BatchFiles == [i \in 1..50 |-> "readable"]

\* the file lists of start_batch_processing (never empty)
Batches ==
    (SeqsUpTo({"readable", "missing"}, MaxLen + 1) \ {<<>>}) \cup {BatchFiles}

\* (i + 1) / total_files * 100 is computed in IEEE doubles: the quotient
\* is rounded to the nearest double and so is the product.  For these
\* <<i + 1, total_files>>, the only ones with total_files <= 100, the
\* product lies just below the integer (i + 1) * 100 / total_files.
FloatShort == {<<29, 50>>, <<29, 100>>, <<57, 100>>, <<58, 100>>}

\* int((i + 1) / total_files * 100), k = i + 1
BatchProgress(k, total_files) ==
    IF <<k, total_files>> \in FloatShort
    THEN (k * 100) \div total_files - 1
    ELSE (k * 100) \div total_files

\* start_batch_processing: the worker is created and started
StartBatchProcessing(file_paths) ==
    /\ batch = <<>>
    /\ batch' = <<[file_paths |-> file_paths, i |-> 0, done |-> FALSE,
                   signals |-> <<>>]>>
    /\ UNCHANGED <<coreVars, picker, web>>

\* one pass of the for loop of run
BatchFile ==
    /\ batch # <<>>
    /\ ~batch[1].done
    /\ batch[1].i < Len(batch[1].file_paths)
    /\ LET total_files == Len(batch[1].file_paths)
           file_path == batch[1].i + 1
           outcome == IF batch[1].file_paths[file_path] = "readable"
                      THEN "file_finished" ELSE "file_error"
       IN  batch' = <<[batch[1] EXCEPT
                !.i = @ + 1,
                !.signals = @ \o
                   <<[signal |-> "status_update", value |-> file_path],
                     [signal |-> outcome, value |-> file_path],
                     [signal |-> "progress",
                      value |-> BatchProgress(batch[1].i + 1, total_files)]>>]>>
    /\ UNCHANGED <<coreVars, picker, web>>

\* after the loop: self.status_update.emit("Batch processing completed!")
BatchCompleted ==
    /\ batch # <<>>
    /\ ~batch[1].done
    /\ batch[1].i = Len(batch[1].file_paths)
    /\ batch' = <<[batch[1] EXCEPT
                     !.done = TRUE,
                     !.signals = Append(@, [signal |-> "status_update",
                                            value |-> 0])]>>
    /\ UNCHANGED <<coreVars, picker, web>>

NextBatch ==
    \/ \E file_paths \in Batches : StartBatchProcessing(file_paths)
    \/ BatchFile
    \/ BatchCompleted

SpecBatch == InitFront /\ [][NextBatch]_vars

(***************************************************************************)
(* The web server: POST /api/obfuscate.  data is the JSON object of the    *)
(* request, each key absent (<<>>) or present (<<v>>); a str is a sequence *)
(* of characters.  A 'layers' value is an int, a str or a float (given in  *)
(* tenths).                                                                *)
(***************************************************************************)
\* int(v): an int as it is, a float truncated towards zero, a str parsed
\* as an optional sign and decimal digits between optional white space
PyInt(v) ==
    IF v.kind = "int" THEN Ok(v.n)
    ELSE IF v.kind = "float"
    THEN Ok(IF v.tenths >= 0 THEN v.tenths \div 10 ELSE -((-v.tenths) \div 10))
    ELSE LET t == Strip(v.s)
             signed == t # <<>> /\ t[1] \in {43, 45}
             d == IF signed THEN Tail(t) ELSE t
         IN  IF d = <<>> \/ \E i \in 1..Len(d) : d[i] < 48 \/ d[i] > 57
             THEN Err("ValueError")
             ELSE Ok(IF signed /\ t[1] = 45 THEN -DigitsValue(d, Len(d))
                     ELSE DigitsValue(d, Len(d)))

\* data.get(key, default)
Get(data, key, default) == IF data[key] = <<>> THEN default ELSE data[key][1]

Max(a, b) == IF a >= b THEN a ELSE b

Min(a, b) == IF a <= b THEN a ELSE b

\* the clamp without its lower bound: min(10, int(...))
ClampLayers_no_floor(n) == Min(10, n)

\* max(1, min(10, int(...)))
ClampLayers(n) == Max(1, Min(10, n))

\* extract_config (the keys that reach validate_config or obfuscate)
extract_config(data) ==
    LET n == PyInt(Get(data, "layers", [kind |-> "int", n |-> 2]))
    IN  IF ~n.ok THEN n
        ELSE Ok([script_location |-> Strip(Get(data, "scriptLocation", <<>>)),
                 code_input |-> Strip(Get(data, "codeInput", <<>>)),
                 technique |-> Get(data, "technique", "fast_xor"),
                 layers |-> ClampLayers(n.val),
                 seed |-> IF Get(data, "randomSeed", FALSE) THEN <<>>
                          ELSE data["seed"],
                 performance_mode |-> Get(data, "performanceMode", "fast")])

\* the files os.path.exists finds
ExistingFiles == {<<115>>}

\* validate_config: the error message, if any, and config as it leaves it
validate_config(config) ==
    IF config.script_location = <<>> /\ config.code_input = <<>>
    THEN [error |-> <<"no_input">>, config |-> config]
    ELSE IF config.script_location # <<>>
            /\ config.script_location \notin ExistingFiles
    THEN [error |-> <<"script_not_found">>, config |-> config]
    ELSE IF \A i \in 1..Len(get_available_techniques(avail)) :
                get_available_techniques(avail)[i] # config.technique
    THEN [error |-> <<"invalid_technique">>, config |-> config]
    ELSE [error |-> <<>>,
          config |-> IF config.performance_mode = "fast" /\ config.layers > 3
                     THEN [config EXCEPT !.layers = 3] ELSE config]

\* the values a key of the request takes
RequestValues ==
    [scriptLocation |-> {<<>>, <<<<32, 115, 32>>>>, <<<<109>>>>},
     codeInput |-> {<<>>, <<<<32>>>>, <<<<120>>>>},
     technique |-> {<<>>, <<"dna">>, <<"nonexistent_technique">>},
     layers |-> {<<>>} \cup
                {<<[kind |-> "int", n |-> n]>> : n \in {-1, 0, 3, 4, 11}}
                \cup {<<[kind |-> "str", s |-> <<32, 53>>]>>,
                      <<[kind |-> "str", s |-> <<97>>]>>,
                      <<[kind |-> "float", tenths |-> 27]>>},
     seed |-> {<<>>, <<1234>>},
     randomSeed |-> {<<>>, <<TRUE>>},
     performanceMode |-> {<<>>, <<"fast">>, <<"full">>}]

Requests ==
    [scriptLocation : RequestValues.scriptLocation,
     codeInput : RequestValues.codeInput,
     technique : RequestValues.technique,
     layers : RequestValues.layers,
     seed : RequestValues.seed,
     randomSeed : RequestValues.randomSeed,
     performanceMode : RequestValues.performanceMode]

\* obfuscate_code, the handler of POST /api/obfuscate with perform_obfuscation.
\* raised: "open" when reading the script raises, "obfuscate" when obfuscate
\* or a later step raises, "no" otherwise.
ObfuscateCode(data, raised) ==
    /\ web = <<>>
    /\ LET answer(status, message, called, written) ==
               <<[data |-> data, status |-> status, error |-> message,
                  called |-> called, written |-> written]>>
           extracted == extract_config(data)
           checked == validate_config(extracted.val)
           config == checked.config
           arguments == <<[technique |-> config.technique,
                           layers |-> config.layers, seed |-> config.seed]>>
       IN  web' =
             IF \A k \in DOMAIN data : data[k] = <<>>
             THEN answer(400, "No data provided", <<>>, FALSE)
             ELSE IF ~extracted.ok
             THEN answer(500, "Obfuscation failed", <<>>, FALSE)
             ELSE IF checked.error # <<>>
             THEN answer(400, checked.error[1], <<>>, FALSE)
             ELSE IF raised = "open" /\ config.script_location # <<>>
             THEN answer(500, "Obfuscation failed", <<>>, FALSE)
             ELSE IF raised = "obfuscate"
             THEN answer(500, "Obfuscation failed", arguments, FALSE)
             ELSE answer(200, "", arguments, TRUE)
    /\ UNCHANGED <<coreVars, picker, batch>>

\* GET /api/techniques
GetTechniques ==
    /\ listed' = [listed EXCEPT
                     !["get_fast_techniques"] = <<get_fast_techniques>>,
                     !["get_available_techniques"] =
                         <<get_available_techniques(avail)>>]
    /\ UNCHANGED <<avail, rng, hashSeed, lookup, pc, call, cur, stack, layer,
                   result, prev, saved, envelope, loaded, tampered, restored,
                   error, encodeLog, decodeLog, wk, stage, importLog, unit,
                   picker, batch, web>>

InitWeb == InitFront /\ avail \in {{}, {"dna", "tensor"}}

NextWeb ==
    \/ \E data \in Requests, raised \in {"no", "open", "obfuscate"} :
           ObfuscateCode(data, raised)
    \/ GetTechniques

SpecWeb == InitWeb /\ [][NextWeb]_vars

(***************************************************************************)
(* Properties of the pipeline.                                             *)
(***************************************************************************)
\* a text every encoder must accept: non-empty, and a sequence of
\* characters (no half of a surrogate pair on its own)
ValidText(text) ==
    text # <<>> /\ \A i \in 1..Len(text) : ~IsSurrogate(text[i])

\* the result object went to deobfuscate as obfuscate returned it
Untouched == ~tampered /\ ~loaded

\* C1: for every technique the registry lists, every layer count n >= 1 and
\* every valid text, deobfuscate(obfuscate(text, technique, n)) returns
\* exactly text.
C1_RoundTrip ==
    (pc = "restored" /\ Untouched /\ ValidText(call.text))
        => restored = <<call.text>>

\* C2: after obfuscate succeeds the metadata stack has exactly `layers`
\* entries, entry i is the metadata the i-th encode call returned, encode
\* call 1 received the raw text and encode call i + 1 the payload that call
\* i returned.
C2_MetadataStack ==
    pc = "complete" =>
        /\ Len(result[1].metadata_stack) = call.layers
        /\ Len(encodeLog) = call.layers
        /\ \A i \in 1..call.layers :
              /\ encodeLog[i].ok
              /\ result[1].metadata_stack[i] = encodeLog[i].metadata
              /\ encodeLog[i].input =
                    IF i = 1 THEN call.text ELSE encodeLog[i - 1].payload
        /\ result[1].payload = encodeLog[call.layers].payload

\* a two-layer result whose layers have different metadata
C2_Witness ==
    /\ pc = "complete"
    /\ call.layers = 2
    /\ result[1].metadata_stack[1] # result[1].metadata_stack[2]
    /\ encodeLog[2].input = encodeLog[1].payload

\* C3: deobfuscate decodes the layers in strictly descending order: the
\* first decode call uses the last metadata entry on the final payload,
\* every later call the next-lower entry on the previous call's output, no
\* entry is used twice or skipped, and the value returned is the output of
\* the decode call that uses the first entry.
C3_DescendingDecode ==
    pc = "restored" =>
        LET n == Len(envelope[1].metadata_stack)
        IN  /\ Len(decodeLog) = n
            /\ \A k \in 1..n :
                  /\ decodeLog[k].ok
                  /\ decodeLog[k].layer = n - k + 1
                  /\ decodeLog[k].metadata =
                        envelope[1].metadata_stack[n - k + 1]
                  /\ decodeLog[k].input =
                        IF k = 1 THEN envelope[1].payload
                        ELSE decodeLog[k - 1].output
            /\ restored = <<decodeLog[n].output>>

\* a two-layer result was decoded, layer 2 first
C3_Witness ==
    /\ pc = "restored"
    /\ Len(envelope[1].metadata_stack) = 2
    /\ decodeLog[1].layer = 2
    /\ decodeLog[2].layer = 1
    /\ envelope[1].metadata_stack[1] # envelope[1].metadata_stack[2]

\* C4: obfuscate and deobfuscate are atomic: when a layer's encode or decode
\* fails the whole call fails with an error, no result object and no
\* partially reconstructed text is returned, and a decode failure names the
\* index of the failing layer.
C4_Atomic ==
    /\ (\E i \in 1..Len(encodeLog) : ~encodeLog[i].ok) =>
          /\ pc = "failed"
          /\ error # <<>>
          /\ result = <<>>
          /\ ~encodeLog[Len(encodeLog)].ok
          /\ error[1].layer = Len(encodeLog)
    /\ (\E k \in 1..Len(decodeLog) : ~decodeLog[k].ok) =>
          /\ pc = "failed"
          /\ restored = <<>>
          /\ ~decodeLog[Len(decodeLog)].ok
          /\ error = <<[kind |-> "DecodeError",
                        layer |-> decodeLog[Len(decodeLog)].layer]>>
    /\ pc = "failed" => (error # <<>> /\ restored = <<>>)
    /\ (pc = "failed" /\ decodeLog = <<>>) => result = <<>>

\* the decode of layer 1 failed after layer 2 had been decoded
C4_Witness ==
    /\ pc = "failed"
    /\ Len(decodeLog) = 2
    /\ decodeLog[1].ok
    /\ ~decodeLog[2].ok
    /\ error[1].layer = 1

\* an encode call failed
C4_EncodeFailure ==
    /\ pc = "failed"
    /\ encodeLog # <<>>
    /\ ~encodeLog[Len(encodeLog)].ok

\* C5: for every technique and every layer, deleting any single key from
\* that layer's metadata before decoding makes deobfuscate fail with a
\* decode error; it never returns a text as if nothing was missing.
C5_MetadataComplete ==
    tampered => pc # "restored"

\* C6: obfuscate called twice with the same text, technique, layer count
\* and seed yields the same payload and the same metadata stack.
C6_SeedDeterminism ==
    (pc = "complete" /\ prev # <<>> /\ call.seed # <<>>) =>
        /\ result[1].payload = prev[1].payload
        /\ result[1].metadata_stack = prev[1].metadata_stack

\* the seeded two-layer fast_xor call was made twice
C6_Witness ==
    /\ pc = "complete"
    /\ prev # <<>>
    /\ call.seed # <<>>
    /\ call.technique = "fast_xor"
    /\ call.layers = 2
    /\ result = prev

\* what json.dump wrote is what json.load returns
JsonFaithful ==
    loaded => envelope = result

\* C8: a result written as JSON and read back can be passed to deobfuscate
\* and yields the original text.
C8_JsonRoundTrip ==
    (pc = "restored" /\ loaded /\ ~tampered /\ ValidText(call.text))
        => restored = <<call.text>>

Registered(name) ==
    \E i \in 1..Len(get_available_techniques(avail)) :
        get_available_techniques(avail)[i] = name

\* C9: obfuscate("", "fast_xor", 1) raises an invalid-input error and no
\* encoder's encode is ever run on an empty text.
C9_EmptyRejected ==
    /\ (pc # "idle" /\ call.text = <<>>) =>
          /\ pc = "failed"
          /\ result = <<>>
          /\ encodeLog = <<>>
          /\ Registered(call.technique) =>
                error = <<[kind |-> "InvalidInputError", layer |-> 0]>>
    /\ \A i \in 1..Len(encodeLog) : encodeLog[i].input # <<>>

\* obfuscate("", "fast_xor", 1) was called
C9_Witness ==
    /\ pc = "failed"
    /\ call = [text |-> <<>>, technique |-> "fast_xor", layers |-> 1,
               seed |-> <<>>]
    /\ error[1].kind = "InvalidInputError"

RECURSIVE AloneFrom(_, _, _, _, _)
AloneFrom(c, payload, metadata_stack, i, s) ==
    IF i > c.layers THEN MakeResult(c, payload, metadata_stack)
    ELSE LET r == Encode(create_encoder(avail, c.technique), payload, s,
                         hashSeed)
         IN  AloneFrom(c, r.val.encoded,
                       PushMetadata(metadata_stack, r.val.metadata), i + 1,
                       r.rng)

Alone(c, s) == AloneFrom(c, c.text, <<>>, 1, SeedGenerator(s, c.seed))

\* C7: concurrent obfuscate calls on independent inputs do not interfere:
\* in every interleaving each call returns the result it would return when
\* run alone.
C7_NoInterference ==
    \A w \in Workers :
        wk[w].pc = "complete" =>
            wk[w].result = <<Alone(wk[w].call, wk[w].start)>>

(***************************************************************************)
(* Properties of the registry.                                             *)
(***************************************************************************)
Range(q) == {q[i] : i \in 1..Len(q)}

\* C11: for every combination of available optional encoders the fast
\* technique list is the same fixed sequence, every fast name is also in
\* the list of all techniques, and looking up (get_encoder_class /
\* create_encoder) any name returned by any listing function yields an
\* encoder rather than an absent result.
C11_RegistryStable ==
    /\ listed["get_fast_techniques"] # <<>> =>
          listed["get_fast_techniques"][1] =
             <<"fast_xor", "fast_base64", "fast_rotation", "fast_hash",
               "fast_binary", "fast_lookup", "simple">>
    /\ (listed["get_fast_techniques"] # <<>>
        /\ listed["get_available_techniques"] # <<>>) =>
          Range(listed["get_fast_techniques"][1])
             \subseteq Range(listed["get_available_techniques"][1])
    /\ \A fn \in Listings :
          (lookup # <<>> /\ listed[fn] # <<>>
           /\ lookup[1].name \in Range(listed[fn][1])) =>
              lookup[1].outcome = Ok(lookup[1].name)

\* with tensor unavailable, create_encoder was called for neural, a name
\* that get_technique_info listed
C11_Witness ==
    /\ stage = "ready"
    /\ "tensor" \notin avail
    /\ lookup # <<>>
    /\ lookup[1].call = "create_encoder"
    /\ lookup[1].name = "neural"
    /\ listed["get_technique_info"] # <<>>
    /\ "neural" \in Range(listed["get_technique_info"][1])
    /\ listed["get_fast_techniques"] # <<>>
    /\ listed["get_available_techniques"] # <<>>

\* C12: get_available_techniques() returns fast_xor, fast_base64,
\* fast_rotation, fast_hash, fast_binary, fast_lookup, simple followed by
\* the available advanced techniques in the order quantum, dna, fractal,
\* neural, steganographic, runtime, tensor (so an unavailable technique
\* never changes the relative order of the others), and a repeated call of
\* a listing function returns the same sequence.
C12_DeclarationOrder ==
    /\ [](listed["get_available_techniques"] # <<>> =>
            listed["get_available_techniques"][1] =
               SelectSeq(<<"fast_xor", "fast_base64", "fast_rotation",
                           "fast_hash", "fast_binary", "fast_lookup", "simple",
                           "quantum", "dna", "fractal", "neural",
                           "steganographic", "runtime", "tensor">>,
                         LAMBDA n : n \notin AdvancedNames \/ n \in avail))
    /\ [][\A fn \in Listings :
             listed[fn] # <<>> => listed'[fn] = listed[fn]]_vars

\* the listing was returned with quantum and neural unavailable and dna and
\* tensor available
C12_Witness ==
    /\ listed["get_available_techniques"] # <<>>
    /\ avail = {"dna", "fractal", "tensor"}
    /\ listed["get_available_techniques"][1] =
          <<"fast_xor", "fast_base64", "fast_rotation", "fast_hash",
            "fast_binary", "fast_lookup", "simple", "dna", "fractal", "tensor">>

\* C13: when an optional encoder module cannot be imported, building the
\* registry does not fail; that technique's availability flag is False and
\* it is omitted from the registry, from get_advanced_techniques() and from
\* get_technique_info(), while all fast techniques stay registered.  An
\* advanced technique is listed if and only if its flag is True.
C13_GracefulDegradation ==
    /\ stage # "failed"
    /\ \A i \in 1..Len(importLog) :
          (importLog[i] = "ok") <=> (ImportOrder[i] \in avail)
    /\ \A fn \in Listings \ {"get_fast_techniques"} :
          listed[fn] # <<>> =>
              Range(listed[fn][1]) \cap AdvancedNames = avail
    /\ listed["get_available_techniques"] # <<>> =>
          {"fast_xor", "fast_base64", "fast_rotation", "fast_hash",
           "fast_binary", "fast_lookup", "simple"}
             \subseteq Range(listed["get_available_techniques"][1])
    /\ (lookup # <<>> /\ lookup[1].name \in AdvancedNames) =>
          (lookup[1].outcome = Ok(None) <=> lookup[1].name \notin avail)

\* the imports of quantum and neural failed, the others succeeded, and the
\* three listings that depend on the flags were returned
C13_Witness ==
    /\ stage = "ready"
    /\ importLog =
          <<"ImportError", "ok", "ok", "ImportError", "ok", "ok", "ok">>
    /\ listed["get_available_techniques"] # <<>>
    /\ listed["get_advanced_techniques"] # <<>>
    /\ listed["get_technique_info"] # <<>>
    /\ lookup # <<>>
    /\ lookup[1].name = "quantum"

(***************************************************************************)
(* Properties of the encoders, each used on its own.                       *)
(***************************************************************************)
\* the call of the given technique whose encode returned
UnitOf(technique) ==
    unit # <<>> /\ unit[1].technique = technique /\ unit[1].ok

\* decode ran on exactly what encode returned
UnitDecoded == unit[1].decoded # <<>> /\ ~unit[1].replaced

\* the bytes under the base64 (and, for fast_xor, the compression) of the
\* payload of an XOR encoder
XorBody ==
    LET raw == B64Decode(AsciiEncode(unit[1].payload).val)
    IN  IF unit[1].technique = "fast_xor" THEN ZlibDecompress(raw.val) ELSE raw

XorKeys ==
    IF unit[1].technique = "fast_xor" THEN unit[1].metadata[1].keys
    ELSE <<unit[1].metadata[1].key>>

\* C14: FastXOREncoder and SimpleEncoder: every key is in 1..255; byte i of
\* the UTF-8 bytes of the text is XORed with key[i mod key-count]; undoing
\* the base64 and, where encode compressed, the compression of the payload
\* gives those XORed bytes; and decode(encode(text)) == text for every text.
C14_XorFamily ==
    \A technique \in {"fast_xor", "simple"} :
        (unit # <<>> /\ unit[1].technique = technique /\ ~unit[1].replaced) =>
            /\ unit[1].ok
            /\ \A i \in 1..Len(XorKeys) : XorKeys[i] >= 1 /\ XorKeys[i] <= 255
            /\ Len(XorKeys) = IF technique = "fast_xor" THEN 4 ELSE 1
            /\ XorBody.ok
            /\ LET b == Utf8Encode(unit[1].data).val
               IN  /\ Len(XorBody.val) = Len(b)
                   /\ \A i \in 1..Len(b) :
                         XorBody.val[i] =
                            BitXor(b[i], XorKeys[((i - 1) % Len(XorKeys)) + 1])
            /\ UnitDecoded => unit[1].decoded[1] = Ok(unit[1].data)

\* fast_xor encoded and decoded a text of more bytes than keys, with keys
\* that are not all the same
C14_Witness ==
    /\ UnitOf("fast_xor")
    /\ UnitDecoded
    /\ Len(Utf8Encode(unit[1].data).val) > 4
    /\ XorKeys[1] # XorKeys[2]
    /\ unit[1].decoded[1] = Ok(unit[1].data)

\* the text FastRotationEncoder.encode put under the base64
Rotated == Utf8Decode(B64Decode(AsciiEncode(unit[1].payload).val).val).val

\* C15: FastRotationEncoder: the stored rotations map a letter to a letter
\* of the same case and leave every non-alphabetic character unchanged, and
\* decode, applying the stored amounts in reverse order, returns exactly
\* the input, for every text including text with non-ASCII letters.
C15_RotationFamily ==
    UnitOf("fast_rotation") =>
        /\ Len(Rotated) = Len(unit[1].data)
        /\ \A i \in 1..Len(unit[1].data) :
              IF IsAlpha(unit[1].data[i])
              THEN /\ IsAlpha(Rotated[i])
                   /\ IsUpper(Rotated[i]) = IsUpper(unit[1].data[i])
              ELSE Rotated[i] = unit[1].data[i]
        /\ UnitDecoded => unit[1].decoded[1] = Ok(unit[1].data)

\* the tokens of the payload of FastHashEncoder, one per chunk
HashTokens == Split(unit[1].payload, 124)

\* C16: when two distinct chunks of the input map to the same token, the
\* hash encoder either gives them distinguishable tokens or rejects the
\* input; it never stores one table entry for both, and the round trip
\* decode(encode(text)) == text holds for such input.
C16_CollisionPolicy ==
    UnitOf("fast_hash") =>
        LET chunks == Chunks(unit[1].data, 8)
        IN  /\ \A j, k \in 1..Len(chunks) :
                  chunks[j] # chunks[k] => HashTokens[j] # HashTokens[k]
            /\ UnitDecoded => unit[1].decoded[1] = Ok(unit[1].data)

\* C17: FastBinaryEncoder: for every text, including control characters
\* and characters with code points above 255, and for every shift in 1..7,
\* decode(encode(text)) == text.
C17_BinaryTolerant ==
    UnitOf("fast_binary") =>
        /\ unit[1].metadata[1].shift \in 1..7
        /\ UnitDecoded => unit[1].decoded[1] = Ok(unit[1].data)

\* C20: when the payload of the hash or lookup encoder contains a token
\* that has no entry in the table of the metadata, decode raises instead of
\* returning a text with that chunk or character left out.
C20_InvalidPayloadFails ==
    (unit # <<>> /\ unit[1].replaced /\ unit[1].decoded # <<>>) =>
        ~unit[1].decoded[1].ok

\* C18: steganographic encoder: for every input and every cover type
\* encode may choose, the cover has at least as many characters as the
\* input has bits, so every bit is embedded in a cover character's least
\* significant bit and decode returns the whole input.
C18_CoverCarriesInput ==
    UnitOf("steganographic") =>
        /\ unit[1].payload.cover_data.length
              >= Len(BinaryData(unit[1].data))
        /\ unit[1].payload.cover_data.lsb = BinaryData(unit[1].data)
        /\ UnitDecoded => unit[1].decoded[1] = Ok(unit[1].data)

\* C19: every parameter an encoder picks at random during encode and that
\* is needed to invert that encode (XOR keys, rotation amounts, shift,
\* character map, lookup table, cover type, quantum gate sequence per
\* qubit) is in the metadata that encode returned, and decode, reading it
\* from there and guessing nothing, returns the input.
C19_MetadataCarriesParameters ==
    (unit # <<>> /\ unit[1].ok) =>
        LET technique == unit[1].technique
            metadata == unit[1].metadata[1]
            s == unit[1].before
        IN  CASE technique = "fast_xor" ->
                    metadata.keys = RandInts(s, 4, 1, 255).val
              [] technique = "simple" -> metadata.key = RandInt(s, 1, 255).val
              [] technique = "fast_rotation" ->
                    metadata.rotations = RandInts(s, 3, 1, 25).val
              [] technique = "fast_binary" ->
                    metadata.shift = RandInt(s, 1, 7).val
              [] technique = "fast_base64" ->
                    metadata.char_map = ZipCharMap(Shuffle(SubstChars, s).val)
              [] technique = "fast_lookup" ->
                    LET unique_chars ==
                            Shuffle(ListOfSet(unit[1].data, hashSeed), s).val
                    IN  \A i \in 1..Len(unique_chars) :
                            metadata.lookup_table[<<unique_chars[i]>>]
                               = Token(i - 1)
              [] technique = "fast_hash" -> TRUE
              [] technique = "steganographic" ->
                    metadata.cover_type = RandChoice(s, CoverTypes).val
              [] technique = "quantum" ->
                    /\ HasKey(metadata, "gates_applied")
                    /\ metadata.gates_applied =
                          ApplyQuantumGates(
                              CreateQuantumCircuit(BinaryData(unit[1].data)),
                              s).gates
                    /\ UnitDecoded => unit[1].decoded[1] = Ok(unit[1].data)

\* C21: FastXOREncoder.decode called with metadata whose 'keys' list is
\* empty fails with an error for every payload, the payload that
\* decompresses to zero bytes included, and never returns a text.
C21_EmptyKeysRejected ==
    (UnitOf("fast_xor") /\ unit[1].metadata[1].keys = <<>>
     /\ unit[1].decoded # <<>>)
        => ~unit[1].decoded[1].ok

\* positions enumerate() reaches in a text of more than 9999 distinct
\* characters, next to the first ones
WideIndexes == {0, 1, 999, 1000, 9999, 10000, 10001}

IsDigits(q) == \A i \in 1..Len(q) : q[i] >= 48 /\ q[i] <= 57

\* C25: FastLookupEncoder gives distinct characters of the input distinct
\* tokens of the form '#<digits>#', and decode's left-to-right token scan
\* returns exactly the input for every text, text that itself contains '#'
\* or digits included; the tokens of positions above 9999 are as distinct
\* and are told apart by the scan as well.
C25_LookupRoundTrip ==
    /\ UnitOf("fast_lookup") =>
          LET table == unit[1].metadata[1].lookup_table
          IN  /\ DOMAIN table = {<<unit[1].data[i]>> : i \in 1..Len(unit[1].data)}
              /\ \A k \in DOMAIN table :
                    /\ Len(table[k]) >= 6
                    /\ table[k][1] = 35
                    /\ table[k][Len(table[k])] = 35
                    /\ IsDigits(SubSeq(table[k], 2, Len(table[k]) - 1))
              /\ \A k1, k2 \in DOMAIN table : k1 # k2 => table[k1] # table[k2]
    /\ (UnitOf("fast_lookup") /\ UnitDecoded) =>
          unit[1].decoded[1] = Ok(unit[1].data)
    /\ unit # <<>> =>
          \A i, j \in WideIndexes :
              i # j =>
                 /\ Token(i) # Token(j)
                 /\ LookupScan(Token(i) \o Token(j) \o Token(i),
                               [k \in {<<1>>, <<2>>} |->
                                   IF k = <<1>> THEN Token(i) ELSE Token(j)])
                       = <<1, 2, 1>>

\* the text '0#1#' went through the lookup encoder and came back
C25_Witness ==
    /\ UnitOf("fast_lookup")
    /\ UnitDecoded
    /\ unit[1].data = <<48, 35, 49, 35>>
    /\ Len(unit[1].payload) = 24
    /\ unit[1].decoded[1] = Ok(unit[1].data)

(***************************************************************************)
(* Properties of the payloads in the pipeline.                             *)
(***************************************************************************)
IsAscii(q) == \A i \in 1..Len(q) : q[i] >= 0 /\ q[i] <= 127

\* C26: the payload a fast technique returns is a string of ASCII
\* characters when its input is ASCII, so in a multi-layer run every layer
\* after the first encodes ASCII-only text.
C26_AsciiPayload ==
    /\ \A i \in 1..Len(encodeLog) :
          (encodeLog[i].ok /\ IsAscii(encodeLog[i].input)) =>
              IsAscii(encodeLog[i].payload)
    /\ (pc = "encoding" /\ layer > 1) => IsAscii(cur)

\* the second layer of a fast_binary run on 'aé' is about to encode
C26_Witness ==
    /\ pc = "encoding"
    /\ layer = 2
    /\ call.technique = "fast_binary"
    /\ call.text = <<97, 233>>
    /\ Len(encodeLog) >= 1
    /\ encodeLog[Len(encodeLog)].ok
    /\ cur = encodeLog[Len(encodeLog)].payload

(***************************************************************************)
(* Properties of the listings taken together.                              *)
(***************************************************************************)
\* C27: for every combination of availability flags,
\* get_available_techniques() is get_fast_techniques() followed by
\* get_advanced_techniques() with no name in both, the keys of
\* get_technique_info() are the available techniques, and an entry's
\* 'type' is 'fast' exactly for the names of get_fast_techniques() and
\* 'advanced' for the others.
C27_ListingsAgree ==
    /\ (listed["get_available_techniques"] # <<>>
        /\ listed["get_fast_techniques"] # <<>>
        /\ listed["get_advanced_techniques"] # <<>>) =>
          /\ listed["get_available_techniques"][1] =
                listed["get_fast_techniques"][1]
                   \o listed["get_advanced_techniques"][1]
          /\ Range(listed["get_fast_techniques"][1])
                \cap Range(listed["get_advanced_techniques"][1]) = {}
    /\ (listed["get_available_techniques"] # <<>>
        /\ listed["get_technique_info"] # <<>>) =>
          Range(listed["get_technique_info"][1]) =
             Range(listed["get_available_techniques"][1])
    /\ (listed["get_technique_info"] # <<>>
        /\ listed["get_fast_techniques"] # <<>>) =>
          LET info == get_technique_info(avail)
          IN  /\ [i \in 1..Len(info) |-> info[i].name] =
                    listed["get_technique_info"][1]
              /\ \A i \in 1..Len(info) :
                    /\ info[i].type \in {"fast", "advanced"}
                    /\ info[i].type = "fast" <=>
                          info[i].name \in Range(listed["get_fast_techniques"][1])

\* the four listings were returned with dna, runtime and tensor available
\* and the other four advanced encoders unavailable
C27_Witness ==
    /\ avail = {"dna", "runtime", "tensor"}
    /\ \A fn \in Listings : listed[fn] # <<>>
    /\ Len(listed["get_available_techniques"][1]) = 10
    /\ Len(listed["get_advanced_techniques"][1]) = 3

(***************************************************************************)
(* Properties of the callers.                                              *)
(***************************************************************************)
\* C28: every technique name the GUI technique picker offers, in each
\* performance mode and for every combination of available optional
\* encoders, is a name the registry can resolve (is in
\* get_available_techniques()).
C28_PickerResolvable ==
    picker # <<>> =>
        /\ Range(picker[1].items) \subseteq Range(get_available_techniques(avail))
        /\ create_encoder(avail, picker[1].current) # None

\* the signals of the given kinds, in the order of their emission
SignalsOf(kinds) ==
    SelectSeq(batch[1].signals, LAMBDA e : e.signal \in kinds)

\* C29: BatchObfuscationWorker.run: for a batch of N >= 1 files, for each
\* file in list order exactly one of file_finished or file_error is
\* emitted, a failure on one file does not stop the remaining files, the
\* progress values are non-decreasing with the k-th equal to
\* floor(k*100/N) and the last equal to 100, and the 'Batch processing
\* completed!' status is emitted after the last file's event.
C29_BatchSignals ==
    (batch # <<>> /\ batch[1].done) =>
        LET N == Len(batch[1].file_paths)
            events == SignalsOf({"file_finished", "file_error"})
            progress == SignalsOf({"progress"})
            signals == batch[1].signals
        IN  /\ Len(events) = N
            /\ \A k \in 1..N :
                  /\ events[k].value = k
                  /\ events[k].signal = "file_finished" <=>
                        batch[1].file_paths[k] = "readable"
            /\ Len(progress) = N
            /\ \A k \in 1..N : progress[k].value = (k * 100) \div N
            /\ \A k \in 1..(N - 1) : progress[k].value <= progress[k + 1].value
            /\ progress[N].value = 100
            /\ signals[Len(signals)] = [signal |-> "status_update", value |-> 0]
            /\ \A j \in 1..(Len(signals) - 1) :
                  signals[j] # [signal |-> "status_update", value |-> 0]

\* the request has a script or code, in the words of validate_config
HasInput(data) ==
    \/ Strip(Get(data, "scriptLocation", <<>>)) # <<>>
    \/ Strip(Get(data, "codeInput", <<>>)) # <<>>

\* C30: for every request whose 'layers' value converts to an integer, the
\* layer count passed to obfuscate is in 1..10, and at most 3 when the
\* performance mode is 'fast'; a request with no script and no code, a
\* missing script file, or a technique not in the registry is answered
\* with a validation error before obfuscate is called and before any
\* output file is written.
C30_WebValidation ==
    (web # <<>> /\ PyInt(Get(web[1].data, "layers", [kind |-> "int", n |-> 2])).ok)
      =>
        /\ web[1].called # <<>> =>
              /\ web[1].called[1].layers \in 1..10
              /\ Get(web[1].data, "performanceMode", "fast") = "fast" =>
                    web[1].called[1].layers <= 3
        /\ (\/ ~HasInput(web[1].data)
            \/ Strip(Get(web[1].data, "scriptLocation", <<>>))
                  \notin ExistingFiles \cup {<<>>}
            \/ Get(web[1].data, "technique", "fast_xor")
                  \notin Range(get_available_techniques(avail)))
              => /\ web[1].status = 400
                 /\ web[1].called = <<>>
                 /\ ~web[1].written
        /\ web[1].written => web[1].called # <<>>

\* a request in fast mode with code, layers 11 and the technique dna went
\* through to obfuscate with three layers
C30_Witness ==
    /\ web # <<>>
    /\ web[1].data["layers"] = <<[kind |-> "int", n |-> 11]>>
    /\ web[1].data["technique"] = <<"dna">>
    /\ web[1].data["performanceMode"] = <<>>
    /\ web[1].status = 200
    /\ web[1].called[1].layers = 3
    /\ web[1].written

\* C23: the intron handling of DnaEncoder is invertible: for the sequence
\* and the introns of every encode, _remove_introns of the spliced sequence
\* with those introns is the sequence that was spliced; and with the
\* mutations reversed, decode(encode(text)) is the text, for text of 8-bit
\* characters.
C23_IntronsInvertible ==
    (UnitOf("dna") /\ unit[1].ok) =>
        /\ remove_introns(unit[1].payload.primary_sequence,
                          unit[1].metadata[1].intron_positions)
             = apply_mutations(binary_to_dna(BinaryData(unit[1].data)),
                               unit[1].before).val.sequence
        /\ UnitDecoded => unit[1].decoded[1] = Ok(unit[1].data)

C24_RuntimeRoundTrip ==
    (UnitOf("runtime") /\ UnitDecoded) =>
        unit[1].decoded[1] = Ok(unit[1].data)

=============================================================================
